---- MODULE Spec2Model ----
(***************************************************************************)
(* Verification model of the aw_logger asynchronous logging pipeline:      *)
(* RingBuffer (ring_buffer_impl.hpp), Logger and LoggerManager             *)
(* (logger_impl.hpp).                                                      *)
(***************************************************************************)
EXTENDS Integers, Sequences, FiniteSets, TLC

(***************************************************************************)
(* Bounds of the model.                                                    *)
(***************************************************************************)
\* capacity handed to the RingBuffer constructor (Logger uses 256)
Capacity == 2
\* how many values the ring-only specifications push in total
MaxPush == 3
\* how many events each producer of the Logger specifications submits
MaxEvents == 2

\* the value of a null / moved-from element (an empty shared_ptr)
Null == 0

(***************************************************************************)
(* RingBuffer: mirror-index ring of ring_buffer_impl.hpp.                  *)
(* The element size is a multiple of 4 (a shared_ptr), so ALIGN4 leaves    *)
(* the requested capacity unchanged.                                       *)
(***************************************************************************)
capacity_ == Capacity
mirror_capacity_ == 2 * capacity_

\* toPtr: physical slot of a mirror index; idx & mask_ with mask_ = capacity_ - 1
\* is idx mod capacity_ for the power-of-two capacities the mask is meant for
toPtr(idx) == idx % capacity_

\* the "used" computation shared by push, pop and getSize
Used(curr_wIdx, curr_rIdx) ==
    IF curr_wIdx >= curr_rIdx
    THEN curr_wIdx - curr_rIdx
    ELSE curr_wIdx + mirror_capacity_ - curr_rIdx

\* next_wIdx / next_rIdx with the wrap-around at mirror_capacity_
NextIdx(idx) ==
    IF idx + 1 >= mirror_capacity_ THEN idx + 1 - mirror_capacity_ ELSE idx + 1

IsFull_off_by_one(used) == used > capacity_
\* push: `if (used >= capacity_) throw ringbuffer_exception("ring buffer is full!")`
IsFull(used) == used >= capacity_

\* pop: `if (used == 0) throw ringbuffer_exception("ring buffer is empty!")`
IsEmpty(used) == used = 0

\* a slot of buffer_: the bits it holds and whether an element is constructed there
EmptySlot == [val |-> Null, live |-> FALSE]

\* RingBuffer::RingBuffer
NewRing == [wIdx |-> 0, rIdx |-> 0, buffer |-> [i \in 0 .. capacity_ - 1 |-> EmptySlot]]

\* the locals of a thread inside push or pop
IdleLoc == [pc |-> "idle", w |-> 0, r |-> 0, data |-> Null, ret |-> FALSE]
PushCall(v) == [pc |-> "push_loadW", w |-> 0, r |-> 0, data |-> v, ret |-> FALSE]
PopCall == [pc |-> "pop_loadR", w |-> 0, r |-> 0, data |-> Null, ret |-> FALSE]

PushPcs == {"push_loadW", "push_loadR", "push_construct", "push_storeW"}
PopPcs == {"pop_loadR", "pop_loadW", "pop_move", "pop_storeR"}

\* one memory step of RingBuffer::push
PushStep(rg, loc) ==
    CASE loc.pc = "push_loadW" ->
            [ring |-> rg, loc |-> [loc EXCEPT !.w = rg.wIdx, !.pc = "push_loadR"]]
      [] loc.pc = "push_loadR" ->
            IF IsFull(Used(loc.w, rg.rIdx))
            THEN [ring |-> rg, loc |-> [loc EXCEPT !.r = rg.rIdx, !.pc = "done", !.ret = FALSE]]
            ELSE [ring |-> rg, loc |-> [loc EXCEPT !.r = rg.rIdx, !.pc = "push_construct"]]
      [] loc.pc = "push_construct" ->
            [ring |-> [rg EXCEPT !.buffer[toPtr(loc.w)] = [val |-> loc.data, live |-> TRUE]],
             loc |-> [loc EXCEPT !.pc = "push_storeW"]]
      [] loc.pc = "push_storeW" ->
            [ring |-> [rg EXCEPT !.wIdx = NextIdx(loc.w)],
             loc |-> [loc EXCEPT !.pc = "done", !.ret = TRUE]]

\* what `std::move(buffer_[rPtr])` can yield: the element when one is constructed
\* there; otherwise the slot is destroyed or never constructed, and the read gives
\* either the moved-from (null) bits or the bits the last element left behind
SlotRead(slot) == IF slot.live THEN {slot.val} ELSE {Null, slot.val}

PopSteps_newest(rg, loc) ==
    CASE loc.pc = "pop_loadR" ->
            {[ring |-> rg, loc |-> [loc EXCEPT !.r = rg.rIdx, !.pc = "pop_loadW"]]}
      [] loc.pc = "pop_loadW" ->
            IF IsEmpty(Used(rg.wIdx, loc.r))
            THEN {[ring |-> rg, loc |-> [loc EXCEPT !.w = rg.wIdx, !.pc = "done", !.ret = FALSE]]}
            ELSE {[ring |-> rg, loc |-> [loc EXCEPT !.w = rg.wIdx, !.pc = "pop_move"]]}
      [] loc.pc = "pop_move" ->
            {[ring |-> [rg EXCEPT !.buffer[toPtr(loc.w + mirror_capacity_ - 1)].live = FALSE],
              loc |-> [loc EXCEPT !.data = v, !.pc = "pop_storeR"]]
                : v \in SlotRead(rg.buffer[toPtr(loc.w + mirror_capacity_ - 1)])}
      [] loc.pc = "pop_storeR" ->
            {[ring |-> [rg EXCEPT !.rIdx = NextIdx(loc.r)],
              loc |-> [loc EXCEPT !.pc = "done", !.ret = TRUE]]}
\* one memory step of RingBuffer::pop, a set because of SlotRead
PopSteps(rg, loc) ==
    CASE loc.pc = "pop_loadR" ->
            {[ring |-> rg, loc |-> [loc EXCEPT !.r = rg.rIdx, !.pc = "pop_loadW"]]}
      [] loc.pc = "pop_loadW" ->
            IF IsEmpty(Used(rg.wIdx, loc.r))
            THEN {[ring |-> rg, loc |-> [loc EXCEPT !.w = rg.wIdx, !.pc = "done", !.ret = FALSE]]}
            ELSE {[ring |-> rg, loc |-> [loc EXCEPT !.w = rg.wIdx, !.pc = "pop_move"]]}
      [] loc.pc = "pop_move" ->
            {[ring |-> [rg EXCEPT !.buffer[toPtr(loc.r)].live = FALSE],
              loc |-> [loc EXCEPT !.data = v, !.pc = "pop_storeR"]]
                : v \in SlotRead(rg.buffer[toPtr(loc.r)])}
      [] loc.pc = "pop_storeR" ->
            {[ring |-> [rg EXCEPT !.rIdx = NextIdx(loc.r)],
              loc |-> [loc EXCEPT !.pc = "done", !.ret = TRUE]]}

\* RingBuffer::getSize on a snapshot of the two indices
getSize(rg) == Used(rg.wIdx, rg.rIdx)

\* a whole push by a thread that nobody interleaves with
RECURSIVE PushRun(_, _)
PushRun(rg, loc) ==
    IF loc.pc = "done" THEN [ring |-> rg, loc |-> loc]
    ELSE LET x == PushStep(rg, loc) IN PushRun(x.ring, x.loc)

\* a whole pop by a thread that nobody interleaves with
RECURSIVE PopRun(_, _)
PopRun(rg, loc) ==
    IF loc.pc = "done" THEN {[ring |-> rg, loc |-> loc]}
    ELSE UNION {PopRun(x.ring, x.loc) : x \in PopSteps(rg, loc)}

(***************************************************************************)
(* State of the ring-only specifications: one RingBuffer, its callers.     *)
(***************************************************************************)
VARIABLES
    ring,       \* the RingBuffer
    rloc,       \* locals of each thread that is inside push or pop
    rthreads,   \* [prod |-> set of producer threads, cons |-> set of consumers]
    nextVal,    \* next fresh value a producer pushes
    pushedOK,   \* values whose push returned true
    poppedSeq,  \* values returned by successful pops, in order
    lastOp      \* the last call that returned: [op, ret, before]

ringVars == <<ring, rloc, rthreads, nextVal, pushedOK, poppedSeq, lastOp>>

(***************************************************************************)
(* State of the Logger specifications: two Logger objects, "root" with a   *)
(* sink and "child" without, the threads that use them and their workers.  *)
(***************************************************************************)
VARIABLES
    th,                 \* every thread: position, locals and the facts of its current call
    rb,                 \* Logger::rb_ of each logger
    running_,           \* Logger::running_
    threshold_level_,   \* Logger::threshold_level_
    appenders_,         \* Logger::appenders_, in registration order
    root_logger_,       \* Logger::root_logger_ (a shared_ptr) or None
    cv_mtx_,            \* holder of Logger::cv_mtx_, or Free
    joinable,           \* Logger::worker_.joinable()
    start_flag_,        \* Logger::start_flag_ (std::once_flag) already used
    life,               \* "alive", "dying" (in ~Logger) or "dead"
    ext,                \* references the application holds on each logger
    crashed,            \* std::terminate was called
    conf,               \* what the application does: [prods, K, admin]
    sinkLog,            \* events each sink has completed append for, in order
    appendLog,          \* every append call the workers made, in order
    accepted,           \* events whose rb_.push returned true, per logger
    dropped,            \* number of submits whose rb_.push returned false
    filtered,           \* events submit returned for at the threshold test
    created,            \* worker threads created, per logger
    nextEv              \* id of the next LogEvent constructed

logVars == <<th, rb, running_, threshold_level_, appenders_, root_logger_, cv_mtx_,
             joinable, start_flag_, life, ext, crashed, conf, sinkLog, appendLog, accepted,
             dropped, filtered, created, nextEv>>

(***************************************************************************)
(* State of the LoggerManager specification: the singleton, the Logger     *)
(* objects it has created and the threads that call getLogger.             *)
(***************************************************************************)
VARIABLES
    mgr,    \* LoggerManager: [root_logger_, loggers_map_, start_flag_, destroyed]
    heap,   \* the Logger objects made by std::make_shared, by address
    gth,    \* every caller of getLogger: position, argument, locals, result
    got     \* the <<name, address>> pairs getLogger has returned

regVars == <<mgr, heap, gth, got>>

(***************************************************************************)
(* State of the FileAppender specification: one appender and the files of  *)
(* its directory.                                                          *)
(***************************************************************************)
VARIABLES
    fapp,   \* FileAppender: [buffer_, capacity, file_size_, max_file_size_,
            \*                max_backup_num_, is_trunc_, is_open]
    disk,   \* the files: index 0 is file_path_, index i is createBackupPath(i)
    fghost  \* [rotated: file_path_'s content at each rotation, n: append calls,
            \*  op: the last call, rotations: rotations made by the last call,
            \*  nums: the values max_backup_num_ has had, sets: setter calls,
            \*  flushes: flush calls since the last append, counted up to 2,
            \*  sizes: the values max_file_size_ has had]

fileVars == <<fapp, disk, fghost>>

(***************************************************************************)
(* State of the ComponentFactory and WebsocketAppender specifications.     *)
(***************************************************************************)
VARIABLES
    pp,     \* ComponentFactory(pattern): [pc, pattern, registered_components_]
    ws,     \* WebsocketAppender, its connection and the thread inside append
    lk      \* the locks of one logger and of its sinks, and the threads that take them

vars == <<ringVars, logVars, regVars, fileVars, pp, ws, lk>>

RingThreads == {"p1", "p2", "c1"}

RingInit(prods, cons) ==
    /\ ring = NewRing
    /\ rthreads = [prod |-> prods, cons |-> cons]
    /\ rloc = [t \in RingThreads |-> IdleLoc]
    /\ nextVal = 1
    /\ pushedOK = {}
    /\ poppedSeq = <<>>
    /\ lastOp = [op |-> "none", ret |-> FALSE, before |-> 0]

(***************************************************************************)
(* Logger (logger_impl.hpp).                                               *)
(***************************************************************************)
\* LogLevel::level values the events and thresholds range over (DEBUG = 0, INFO = 1, ...)
NumLevels == 2

Loggers == {"root", "child"}
Sinks == {"s1", "s2"}
None == "none"
Free == "free"
Producers == {"p1", "p2"}
Owner == "o"
WorkerOf == [root |-> "w_root", child |-> "w_child"]
Workers == {WorkerOf[l] : l \in Loggers}
LogThreads == Producers \cup {Owner} \cup Workers

\* a LogEvent is a positive number that carries its id and its level
EvOf(id, lvl) == id * NumLevels + lvl
\* LogEvent::getLogLevel
getLogLevel(ev) == ev % NumLevels

\* a thread outside every call; l0, delegFrom, pushAt, startAt, low and res describe
\* the submit call the thread is in or has last returned from (snap: the appender
\* list its test of appenders_.empty() looked at), call and res the last call the
\* application made on the appender list
T0(pc) ==
    [pc |-> pc, l |-> "root", ev |-> Null, loc |-> IdleLoc, snap |-> <<>>, i |-> 0,
     gw |-> 0, ctx |-> "none", holds |-> FALSE, brk |-> FALSE, n |-> 0,
     l0 |-> "root", delegFrom |-> <<>>, pushAt |-> {}, startAt |-> {},
     low |-> {}, res |-> "none", after |-> FALSE, pre |-> {},
     missing |-> {}, call |-> <<>>]

\* what the application does: producers, their loggers, their events
Conf(prods, K, admin, targets, kinds) ==
    conf = [prods |-> prods, K |-> K, admin |-> admin, targets |-> targets, kinds |-> kinds]

\* Logger::Logger for both loggers, then the setAppender and setRootLogger calls
\* that give every logger l the appender list apps[l] and the root logger parents[l]
LogStart(apps, parents) ==
    /\ th = [t \in LogThreads |-> IF t \in Workers THEN T0("none") ELSE T0("idle")]
    /\ rb = [l \in Loggers |-> NewRing]
    /\ running_ = [l \in Loggers |-> FALSE]
    /\ threshold_level_ = [l \in Loggers |-> 0]
    /\ appenders_ = apps
    /\ root_logger_ = parents
    /\ cv_mtx_ = [l \in Loggers |-> Free]
    /\ joinable = [l \in Loggers |-> FALSE]
    /\ start_flag_ = [l \in Loggers |-> FALSE]
    /\ life = [l \in Loggers |-> "alive"]
    /\ ext = [l \in Loggers |-> 1]
    /\ crashed = FALSE
    /\ sinkLog = [s \in Sinks |-> <<>>]
    /\ appendLog = <<>>
    /\ accepted = [l \in Loggers |-> {}]
    /\ dropped = 0
    /\ filtered = {}
    /\ created = [l \in Loggers |-> 0]
    /\ nextEv = 1

\* Logger::Logger for both loggers, then root.setAppender(s1)
LogInit == LogStart([root |-> <<"s1">>, child |-> <<>>], [l \in Loggers |-> None])

\* the ring-only specifications leave the loggers as constructed
LogUnused == LogInit /\ Conf({}, 0, 0, {}, {})

\* use_count of the shared_ptr control block of logger l: the application's
\* reference, the one the worker holds inside an iteration, and root_logger_ of
\* every logger not yet destroyed
\* (events are passed to submit() directly and their LogEvent::logger_ does not
\* refer to the logger they are submitted to, so queued events add no reference)
Strong(l, e, t, par, lf) ==
    e[l] + (IF t[WorkerOf[l]].holds THEN 1 ELSE 0)
         + Cardinality({c \in Loggers : lf[c] # "dead" /\ par[c] = l})

\* the elements of a sequence
Range(seq) == {seq[i] : i \in 1 .. Len(seq)}

\* how often event ev has been appended to sink s
Received(s, ev) == Cardinality({i \in 1 .. Len(sinkLog[s]) : sinkLog[s][i] = ev})

IsFiltered_null_only(ev, thres) == ev = Null
\* the threshold test of submit
IsFiltered(ev, thres) == ev = Null \/ getLogLevel(ev) < thres

compare_exchange_strong_always(cur, expected, desired) == [ok |-> TRUE, val |-> desired]
\* std::atomic<bool>::compare_exchange_strong
compare_exchange_strong(cur, expected, desired) ==
    [ok |-> cur = expected, val |-> IF cur = expected THEN desired ELSE cur]

\* cv_.notify_one / notify_all on logger l: the only possible waiter is its worker
Notified(t, l) ==
    IF t[WorkerOf[l]].pc = "wk_waiting" THEN [t EXCEPT ![WorkerOf[l]].pc = "wk_reacq"] ELSE t

(* ---------------------------- Logger::submit --------------------------- *)

\* a producer constructs an event (or passes nullptr) and calls l->submit(event)
Submit(p, l, e) ==
    /\ p \in conf.prods
    /\ th[p].pc = "idle"
    /\ th[p].n < conf.K
    /\ ext[l] = 1 /\ life[l] = "alive"
    /\ th' = [th EXCEPT ![p] = [T0("sub_chk") EXCEPT !.l = l, !.l0 = l, !.ev = e,
                                                    !.n = th[p].n + 1]]
    /\ nextEv' = nextEv + 1
    /\ UNCHANGED <<rb, running_, threshold_level_, appenders_, root_logger_, cv_mtx_,
                   joinable, start_flag_, life, ext, crashed, conf, sinkLog, appendLog, accepted,
                   dropped, filtered, created>>

SubmitCheck_first_only(p) ==
    /\ th[p].pc = "sub_chk"
    /\ LET l == th[p].l
           ev == th[p].ev
           isLow == ev = Null \/ ev % NumLevels < threshold_level_[l]
           me == [th[p] EXCEPT !.low = IF isLow THEN @ \cup {l} ELSE @]
       IN IF th[p].delegFrom = <<>> /\ IsFiltered(ev, threshold_level_[l])
          THEN /\ th' = [th EXCEPT ![p] = [me EXCEPT !.pc = "idle", !.res = "filtered"]]
               /\ filtered' = IF isLow /\ ev # Null THEN filtered \cup {ev} ELSE filtered
          ELSE /\ th' = [th EXCEPT ![p] = [me EXCEPT !.pc = "sub_has"]]
               /\ filtered' = IF isLow /\ ev # Null THEN filtered \cup {ev} ELSE filtered
    /\ UNCHANGED <<rb, running_, threshold_level_, appenders_, root_logger_, cv_mtx_,
                   joinable, start_flag_, life, ext, crashed, conf, sinkLog, appendLog, accepted,
                   dropped, created, nextEv>>

\* `if (event == nullptr || event->getLogLevel() < threshold_level_) return;`
SubmitCheck(p) ==
    /\ th[p].pc = "sub_chk"
    /\ LET l == th[p].l
           ev == th[p].ev
           isLow == ev = Null \/ ev % NumLevels < threshold_level_[l]
           me == [th[p] EXCEPT !.low = IF isLow THEN @ \cup {l} ELSE @]
       IN IF IsFiltered(ev, threshold_level_[l])
          THEN /\ th' = [th EXCEPT ![p] = [me EXCEPT !.pc = "idle", !.res = "filtered"]]
               /\ filtered' = IF isLow /\ ev # Null THEN filtered \cup {ev} ELSE filtered
          ELSE /\ th' = [th EXCEPT ![p] = [me EXCEPT !.pc = "sub_has"]]
               /\ filtered' = IF isLow /\ ev # Null THEN filtered \cup {ev} ELSE filtered
    /\ UNCHANGED <<rb, running_, threshold_level_, appenders_, root_logger_, cv_mtx_,
                   joinable, start_flag_, life, ext, crashed, conf, sinkLog, appendLog, accepted,
                   dropped, created, nextEv>>

\* `has_appenders = !appenders_.empty()` under the shared lock, then the branch
SubmitHasAppenders(p) ==
    /\ th[p].pc = "sub_has"
    /\ LET l == th[p].l IN
        th' = [th EXCEPT ![p] =
                 IF appenders_[l] # <<>>
                 THEN [@ EXCEPT !.pc = "start_cas", !.ctx = "submit", !.startAt = @ \cup {l},
                                !.snap = appenders_[l]]
                 ELSE [@ EXCEPT !.pc = "sub_parent", !.snap = <<>>]]
    /\ UNCHANGED <<rb, running_, threshold_level_, appenders_, root_logger_, cv_mtx_,
                   joinable, start_flag_, life, ext, crashed, conf, sinkLog, appendLog, accepted,
                   dropped, filtered, created, nextEv>>

\* where a thread continues when start() returns: submit goes on to rb_.push(event)
AfterStart(me) ==
    IF me.ctx = "submit"
    THEN [me EXCEPT !.pc = "push", !.loc = PushCall(me.ev), !.pushAt = @ \cup {me.l}]
    ELSE [me EXCEPT !.pc = "idle", !.ctx = "none"]

\* Logger::start: `if (!running_.compare_exchange_strong(expected, true)) return;`
StartCas(t) ==
    /\ th[t].pc = "start_cas"
    /\ LET l == th[t].l
           cas == compare_exchange_strong(running_[l], FALSE, TRUE)
       IN /\ running_' = [running_ EXCEPT ![l] = cas.val]
          /\ th' = [th EXCEPT ![t] = IF cas.ok THEN [@ EXCEPT !.pc = "start_spawn"]
                                     ELSE AfterStart(@)]
    /\ UNCHANGED <<rb, threshold_level_, appenders_, root_logger_, cv_mtx_,
                   joinable, start_flag_, life, ext, crashed, conf, sinkLog, appendLog, accepted,
                   dropped, filtered, created, nextEv>>

\* Logger::start: `worker_ = std::thread(...)`; assigning to a joinable std::thread
\* calls std::terminate
StartSpawn(t) ==
    /\ th[t].pc = "start_spawn"
    /\ LET l == th[t].l IN
        /\ created' = [created EXCEPT ![l] = @ + 1]
        /\ crashed' = joinable[l]
        /\ joinable' = [joinable EXCEPT ![l] = TRUE]
        /\ th' = [th EXCEPT ![t] = AfterStart(@),
                            ![WorkerOf[l]] = IF joinable[l] THEN @ ELSE T0("wk_top")]
    /\ UNCHANGED <<rb, running_, threshold_level_, appenders_, root_logger_, cv_mtx_,
                   start_flag_, life, ext, conf, sinkLog, appendLog, accepted,
                   dropped, filtered, nextEv>>

\* one memory step of `rb_.push(event)`
SubmitPushStep(p) ==
    /\ th[p].pc = "push"
    /\ th[p].loc.pc \in PushPcs
    /\ LET l == th[p].l
           x == PushStep(rb[l], th[p].loc)
       IN /\ rb' = [rb EXCEPT ![l] = x.ring]
          /\ th' = [th EXCEPT ![p].loc = x.loc]
    /\ UNCHANGED <<running_, threshold_level_, appenders_, root_logger_, cv_mtx_,
                   joinable, start_flag_, life, ext, crashed, conf, sinkLog, appendLog, accepted,
                   dropped, filtered, created, nextEv>>

\* `if (rb_.push(event)) { ... }`: a failed push drops the event and submit returns
SubmitPushed(p) ==
    /\ th[p].pc = "push"
    /\ th[p].loc.pc = "done"
    /\ LET l == th[p].l IN
        IF th[p].loc.ret
        THEN /\ accepted' = [accepted EXCEPT ![l] = @ \cup {th[p].ev}]
             /\ dropped' = dropped
             /\ th' = [th EXCEPT ![p] = [@ EXCEPT !.pc = "sub_notify", !.loc = IdleLoc]]
        ELSE /\ accepted' = accepted
             /\ dropped' = dropped + 1
             /\ th' = [th EXCEPT ![p] = [@ EXCEPT !.pc = "idle", !.loc = IdleLoc,
                                                  !.res = "dropped"]]
    /\ UNCHANGED <<rb, running_, threshold_level_, appenders_, root_logger_, cv_mtx_,
                   joinable, start_flag_, life, ext, crashed, conf, sinkLog, appendLog,
                   filtered, created, nextEv>>

SubmitNotify_without_mutex(p) ==
    /\ th[p].pc = "sub_notify"
    /\ th' = [Notified(th, th[p].l) EXCEPT ![p] = [@ EXCEPT !.pc = "idle", !.res = "pushed"]]
    /\ UNCHANGED <<rb, running_, threshold_level_, appenders_, root_logger_, cv_mtx_,
                   joinable, start_flag_, life, ext, crashed, conf, sinkLog, appendLog, accepted,
                   dropped, filtered, created, nextEv>>

\* `std::unique_lock cv_lk(cv_mtx_); cv_.notify_one();` then submit returns
SubmitNotify(p) ==
    /\ th[p].pc = "sub_notify"
    /\ cv_mtx_[th[p].l] = Free
    /\ th' = [Notified(th, th[p].l) EXCEPT ![p] = [@ EXCEPT !.pc = "idle", !.res = "pushed"]]
    /\ UNCHANGED <<rb, running_, threshold_level_, appenders_, root_logger_, cv_mtx_,
                   joinable, start_flag_, life, ext, crashed, conf, sinkLog, appendLog, accepted,
                   dropped, filtered, created, nextEv>>

SubmitParent_swallow(p) ==
    /\ th[p].pc = "sub_parent"
    /\ LET l == th[p].l IN
        th' = [th EXCEPT ![p] =
                 IF root_logger_[l] # None
                 THEN [@ EXCEPT !.pc = "sub_chk", !.l = root_logger_[l],
                                !.delegFrom = Append(@, l)]
                 ELSE [@ EXCEPT !.pc = "idle", !.res = "filtered"]]
    /\ UNCHANGED <<rb, running_, threshold_level_, appenders_, root_logger_, cv_mtx_,
                   joinable, start_flag_, life, ext, crashed, conf, sinkLog, appendLog, accepted,
                   dropped, filtered, created, nextEv>>

\* no appenders: `curr_root_logger = root_logger_`, then delegate or throw
SubmitParent(p) ==
    /\ th[p].pc = "sub_parent"
    /\ LET l == th[p].l IN
        th' = [th EXCEPT ![p] =
                 IF root_logger_[l] # None
                 THEN [@ EXCEPT !.pc = "sub_chk", !.l = root_logger_[l],
                                !.delegFrom = Append(@, l)]
                 ELSE [@ EXCEPT !.pc = "idle", !.res = "invalid_parameter"]]
    /\ UNCHANGED <<rb, running_, threshold_level_, appenders_, root_logger_, cv_mtx_,
                   joinable, start_flag_, life, ext, crashed, conf, sinkLog, appendLog, accepted,
                   dropped, filtered, created, nextEv>>

(* ------------------- the worker thread of Logger::start ----------------- *)

\* `auto logger = self.lock(); if (logger == nullptr) break;`
WkTop(l) ==
    /\ th[WorkerOf[l]].pc = "wk_top"
    /\ th' = [th EXCEPT ![WorkerOf[l]] =
                IF Strong(l, ext, th, root_logger_, life) > 0
                THEN [@ EXCEPT !.pc = "wk_lockcv", !.holds = TRUE, !.l = l]
                ELSE [@ EXCEPT !.pc = "wk_exit"]]
    /\ UNCHANGED <<rb, running_, threshold_level_, appenders_, root_logger_, cv_mtx_,
                   joinable, start_flag_, life, ext, crashed, conf, sinkLog, appendLog, accepted,
                   dropped, filtered, created, nextEv>>

\* `std::unique_lock cv_lk(logger->cv_mtx_)`, and the re-lock when a wait is over
WkLockCv(l) ==
    /\ th[WorkerOf[l]].pc \in {"wk_lockcv", "wk_reacq"}
    /\ cv_mtx_[l] = Free
    /\ cv_mtx_' = [cv_mtx_ EXCEPT ![l] = WorkerOf[l]]
    /\ th' = [th EXCEPT ![WorkerOf[l]].pc = "wk_pred"]
    /\ UNCHANGED <<rb, running_, threshold_level_, appenders_, root_logger_,
                   joinable, start_flag_, life, ext, crashed, conf, sinkLog, appendLog, accepted,
                   dropped, filtered, created, nextEv>>

\* the predicate of cv_.wait: `!running_ || rb_.getSize() > 0`
WaitPredicate(l) == ~running_[l] \/ getSize(rb[l]) > 0

\* cv_.wait evaluates the predicate with cv_mtx_ held
WkPred(l) ==
    /\ th[WorkerOf[l]].pc = "wk_pred"
    /\ th' = [th EXCEPT ![WorkerOf[l]].pc =
                IF WaitPredicate(l) THEN "wk_chkexit" ELSE "wk_block"]
    /\ UNCHANGED <<rb, running_, threshold_level_, appenders_, root_logger_, cv_mtx_,
                   joinable, start_flag_, life, ext, crashed, conf, sinkLog, appendLog, accepted,
                   dropped, filtered, created, nextEv>>

\* cv_.wait releases cv_mtx_ and blocks, atomically
WkBlock(l) ==
    /\ th[WorkerOf[l]].pc = "wk_block"
    /\ cv_mtx_' = [cv_mtx_ EXCEPT ![l] = Free]
    /\ th' = [th EXCEPT ![WorkerOf[l]].pc = "wk_waiting"]
    /\ UNCHANGED <<rb, running_, threshold_level_, appenders_, root_logger_,
                   joinable, start_flag_, life, ext, crashed, conf, sinkLog, appendLog, accepted,
                   dropped, filtered, created, nextEv>>

\* a condition variable may wake up without a notification
WkSpurious(l) ==
    /\ th[WorkerOf[l]].pc = "wk_waiting"
    /\ th' = [th EXCEPT ![WorkerOf[l]].pc = "wk_reacq"]
    /\ UNCHANGED <<rb, running_, threshold_level_, appenders_, root_logger_, cv_mtx_,
                   joinable, start_flag_, life, ext, crashed, conf, sinkLog, appendLog, accepted,
                   dropped, filtered, created, nextEv>>

\* `if (!running_ && rb_.getSize() == 0) break;`
ExitTest(l) == ~running_[l] /\ getSize(rb[l]) = 0

\* the exit test, then the first rb_.pop of the drain loop
WkCheckExit(l) ==
    /\ th[WorkerOf[l]].pc = "wk_chkexit"
    /\ th' = [th EXCEPT ![WorkerOf[l]] =
                IF ExitTest(l)
                THEN [@ EXCEPT !.pc = "wk_iter_end", !.brk = TRUE]
                ELSE [@ EXCEPT !.pc = "pop", !.loc = PopCall]]
    /\ UNCHANGED <<rb, running_, threshold_level_, appenders_, root_logger_, cv_mtx_,
                   joinable, start_flag_, life, ext, crashed, conf, sinkLog, appendLog, accepted,
                   dropped, filtered, created, nextEv>>

\* one memory step of `logger->rb_.pop(out_event)`
WkPopStep(l) ==
    /\ th[WorkerOf[l]].pc = "pop"
    /\ th[WorkerOf[l]].loc.pc \in PopPcs
    /\ \E x \in PopSteps(rb[l], th[WorkerOf[l]].loc) :
        /\ rb' = [rb EXCEPT ![l] = x.ring]
        /\ th' = [th EXCEPT ![WorkerOf[l]].loc = x.loc]
    /\ UNCHANGED <<running_, threshold_level_, appenders_, root_logger_, cv_mtx_,
                   joinable, start_flag_, life, ext, crashed, conf, sinkLog, appendLog, accepted,
                   dropped, filtered, created, nextEv>>

\* `while (logger->rb_.pop(out_event))`: the loop test on pop's result
WkPopped(l) ==
    /\ th[WorkerOf[l]].pc = "pop"
    /\ th[WorkerOf[l]].loc.pc = "done"
    /\ th' = [th EXCEPT ![WorkerOf[l]] =
                IF @.loc.ret
                THEN [@ EXCEPT !.pc = "wk_snap", !.ev = th[WorkerOf[l]].loc.data, !.loc = IdleLoc]
                ELSE [@ EXCEPT !.pc = "wk_iter_end", !.loc = IdleLoc]]
    /\ UNCHANGED <<rb, running_, threshold_level_, appenders_, root_logger_, cv_mtx_,
                   joinable, start_flag_, life, ext, crashed, conf, sinkLog, appendLog, accepted,
                   dropped, filtered, created, nextEv>>

\* `copy_appenders = logger->appenders_` under the shared lock
WkSnap(l) ==
    /\ th[WorkerOf[l]].pc = "wk_snap"
    /\ th' = [th EXCEPT ![WorkerOf[l]] =
                IF appenders_[l] = <<>>
                THEN [@ EXCEPT !.pc = "pop", !.loc = PopCall]
                ELSE [@ EXCEPT !.pc = "wk_append", !.snap = appenders_[l], !.i = 1]]
    /\ UNCHANGED <<rb, running_, threshold_level_, appenders_, root_logger_, cv_mtx_,
                   joinable, start_flag_, life, ext, crashed, conf, sinkLog, appendLog, accepted,
                   dropped, filtered, created, nextEv>>

WkAppend_reverse(l) ==
    /\ th[WorkerOf[l]].pc = "wk_append"
    /\ LET me == th[WorkerOf[l]]
           app == me.snap[Len(me.snap) + 1 - me.i]
       IN
        /\ sinkLog' = [sinkLog EXCEPT ![app] = Append(@, me.ev)]
        /\ appendLog' = Append(appendLog, [ev |-> me.ev, sink |-> app,
                                            snap |-> me.snap, threw |-> FALSE])
        /\ th' = [th EXCEPT ![WorkerOf[l]] =
                    IF me.i = Len(me.snap)
                    THEN [@ EXCEPT !.pc = "pop", !.loc = PopCall, !.snap = <<>>, !.i = 0]
                    ELSE [@ EXCEPT !.i = @ + 1]]
    /\ UNCHANGED <<rb, running_, threshold_level_, appenders_, root_logger_, cv_mtx_,
                   joinable, start_flag_, life, ext, crashed, conf, accepted,
                   dropped, filtered, created, nextEv>>

WkAppend_live(l) ==
    /\ th[WorkerOf[l]].pc = "wk_append"
    /\ LET me == th[WorkerOf[l]]
           live == appenders_[l]
       IN
        /\ sinkLog' = IF me.i > Len(live) THEN sinkLog
                      ELSE [sinkLog EXCEPT ![live[me.i]] = Append(@, me.ev)]
        /\ appendLog' = IF me.i > Len(live) THEN appendLog
                        ELSE Append(appendLog, [ev |-> me.ev, sink |-> live[me.i],
                                                snap |-> me.snap, threw |-> FALSE])
        /\ th' = [th EXCEPT ![WorkerOf[l]] =
                    IF me.i >= Len(live)
                    THEN [@ EXCEPT !.pc = "pop", !.loc = PopCall, !.snap = <<>>, !.i = 0]
                    ELSE [@ EXCEPT !.i = @ + 1]]
    /\ UNCHANGED <<rb, running_, threshold_level_, appenders_, root_logger_, cv_mtx_,
                   joinable, start_flag_, life, ext, crashed, conf, accepted,
                   dropped, filtered, created, nextEv>>

\* `app->append(out_event)` for the next appender of the copy
WkAppend(l) ==
    /\ th[WorkerOf[l]].pc = "wk_append"
    /\ LET me == th[WorkerOf[l]] IN
        /\ sinkLog' = [sinkLog EXCEPT ![me.snap[me.i]] = Append(@, me.ev)]
        /\ appendLog' = Append(appendLog, [ev |-> me.ev, sink |-> me.snap[me.i],
                                            snap |-> me.snap, threw |-> FALSE])
        /\ th' = [th EXCEPT ![WorkerOf[l]] =
                    IF me.i = Len(me.snap)
                    THEN [@ EXCEPT !.pc = "pop", !.loc = PopCall, !.snap = <<>>, !.i = 0]
                    ELSE [@ EXCEPT !.i = @ + 1]]
    /\ UNCHANGED <<rb, running_, threshold_level_, appenders_, root_logger_, cv_mtx_,
                   joinable, start_flag_, life, ext, crashed, conf, accepted,
                   dropped, filtered, created, nextEv>>

WkAppendThrows_next_sink(l) ==
    /\ th[WorkerOf[l]].pc = "wk_append"
    /\ LET me == th[WorkerOf[l]] IN
        /\ appendLog' = Append(appendLog, [ev |-> me.ev, sink |-> me.snap[me.i],
                                            snap |-> me.snap, threw |-> TRUE])
        /\ th' = [th EXCEPT ![WorkerOf[l]] =
                    IF me.i = Len(me.snap)
                    THEN [@ EXCEPT !.pc = "pop", !.loc = PopCall, !.snap = <<>>, !.i = 0]
                    ELSE [@ EXCEPT !.i = @ + 1]]
    /\ UNCHANGED <<rb, running_, threshold_level_, appenders_, root_logger_, cv_mtx_,
                   joinable, start_flag_, life, ext, crashed, conf, sinkLog, accepted,
                   dropped, filtered, created, nextEv>>

WkAppendThrows_escapes(l) ==
    /\ th[WorkerOf[l]].pc = "wk_append"
    /\ LET me == th[WorkerOf[l]] IN
        /\ appendLog' = Append(appendLog, [ev |-> me.ev, sink |-> me.snap[me.i],
                                            snap |-> me.snap, threw |-> TRUE])
        /\ th' = [th EXCEPT ![WorkerOf[l]] =
                    [@ EXCEPT !.pc = "wk_iter_end", !.brk = TRUE, !.snap = <<>>, !.i = 0]]
    /\ UNCHANGED <<rb, running_, threshold_level_, appenders_, root_logger_, cv_mtx_,
                   joinable, start_flag_, life, ext, crashed, conf, sinkLog, accepted,
                   dropped, filtered, created, nextEv>>

\* `app->append(out_event)` throws: the catch clauses report it and the worker
\* goes on with `while (logger->rb_.pop(out_event))`
WkAppendThrows(l) ==
    /\ th[WorkerOf[l]].pc = "wk_append"
    /\ LET me == th[WorkerOf[l]] IN
        /\ appendLog' = Append(appendLog, [ev |-> me.ev, sink |-> me.snap[me.i],
                                            snap |-> me.snap, threw |-> TRUE])
        /\ th' = [th EXCEPT ![WorkerOf[l]] =
                    [@ EXCEPT !.pc = "pop", !.loc = PopCall, !.snap = <<>>, !.i = 0]]
    /\ UNCHANGED <<rb, running_, threshold_level_, appenders_, root_logger_, cv_mtx_,
                   joinable, start_flag_, life, ext, crashed, conf, sinkLog, accepted,
                   dropped, filtered, created, nextEv>>

\* end of the loop body (also on break): cv_lk is destroyed and unlocks cv_mtx_
WkIterEnd(l) ==
    /\ th[WorkerOf[l]].pc = "wk_iter_end"
    /\ cv_mtx_' = [cv_mtx_ EXCEPT ![l] = Free]
    /\ th' = [th EXCEPT ![WorkerOf[l]].pc = "wk_release"]
    /\ UNCHANGED <<rb, running_, threshold_level_, appenders_, root_logger_,
                   joinable, start_flag_, life, ext, crashed, conf, sinkLog, appendLog, accepted,
                   dropped, filtered, created, nextEv>>

\* then `logger` is destroyed: when it was the last reference, ~Logger runs here,
\* on the worker thread
WkRelease(l) ==
    /\ th[WorkerOf[l]].pc = "wk_release"
    /\ LET w == WorkerOf[l]
           rel == [th EXCEPT ![w].holds = FALSE]
           last == Strong(l, ext, rel, root_logger_, life) = 0
       IN /\ th' = [rel EXCEPT ![w] =
                      IF last THEN [@ EXCEPT !.pc = "fl_loadW", !.ctx = "dtor"]
                      ELSE IF @.brk THEN [@ EXCEPT !.pc = "wk_exit"]
                      ELSE [@ EXCEPT !.pc = "wk_top"]]
          /\ life' = IF last THEN [life EXCEPT ![l] = "dying"] ELSE life
    /\ UNCHANGED <<rb, running_, threshold_level_, appenders_, root_logger_, cv_mtx_,
                   joinable, start_flag_, ext, crashed, conf, sinkLog, appendLog, accepted,
                   dropped, filtered, created, nextEv>>

(* ------------- Logger::flush, Logger::stop and Logger::~Logger ----------- *)

\* rb_.getSize(): `curr_wIdx = wIdx_.load(acquire)`
FlushLoadW(t) ==
    /\ th[t].pc = "fl_loadW"
    /\ th' = [th EXCEPT ![t] = [@ EXCEPT !.pc = "fl_loadR", !.gw = rb[th[t].l].wIdx]]
    /\ UNCHANGED <<rb, running_, threshold_level_, appenders_, root_logger_, cv_mtx_,
                   joinable, start_flag_, life, ext, crashed, conf, sinkLog, appendLog, accepted,
                   dropped, filtered, created, nextEv>>

\* rb_.getSize(): `curr_rIdx = rIdx_.load(acquire)`, then `while (getSize() > 0) yield`
FlushLoadR(t) ==
    /\ th[t].pc = "fl_loadR"
    /\ th' = [th EXCEPT ![t] =
                IF Used(@.gw, rb[@.l].rIdx) > 0
                THEN [@ EXCEPT !.pc = "fl_loadW", !.gw = 0]
                ELSE [@ EXCEPT !.pc = "fl_sinks", !.gw = 0]]
    /\ UNCHANGED <<rb, running_, threshold_level_, appenders_, root_logger_, cv_mtx_,
                   joinable, start_flag_, life, ext, crashed, conf, sinkLog, appendLog, accepted,
                   dropped, filtered, created, nextEv>>

\* `for (app : appenders_) app->flush()` under the exclusive lock; flush() returns,
\* and ~Logger goes on to stop()
FlushSinks(t) ==
    /\ th[t].pc = "fl_sinks"
    /\ th' = [th EXCEPT ![t] =
                [@ EXCEPT !.pc = IF th[t].ctx = "dtor" THEN "stop_cas" ELSE "fl_done",
                          !.missing = {e \in th[t].pre :
                                          \E s \in Range(appenders_[th[t].l]) :
                                              Received(s, e) = 0}]]
    /\ UNCHANGED <<rb, running_, threshold_level_, appenders_, root_logger_, cv_mtx_,
                   joinable, start_flag_, life, ext, crashed, conf, sinkLog, appendLog, accepted,
                   dropped, filtered, created, nextEv>>

\* Logger::stop: `if (running_.compare_exchange_strong(expected, false))`
StopCas(t) ==
    /\ th[t].pc = "stop_cas"
    /\ LET l == th[t].l
           cas == compare_exchange_strong(running_[l], TRUE, FALSE)
       IN /\ running_' = [running_ EXCEPT ![l] = cas.val]
          /\ th' = [th EXCEPT ![t].pc = IF cas.ok THEN "stop_notify" ELSE "stop_join"]
    /\ UNCHANGED <<rb, threshold_level_, appenders_, root_logger_, cv_mtx_,
                   joinable, start_flag_, life, ext, crashed, conf, sinkLog, appendLog, accepted,
                   dropped, filtered, created, nextEv>>

\* Logger::stop: `cv_.notify_all()`, without cv_mtx_
StopNotify(t) ==
    /\ th[t].pc = "stop_notify"
    /\ th' = [Notified(th, th[t].l) EXCEPT ![t].pc = "stop_join"]
    /\ UNCHANGED <<rb, running_, threshold_level_, appenders_, root_logger_, cv_mtx_,
                   joinable, start_flag_, life, ext, crashed, conf, sinkLog, appendLog, accepted,
                   dropped, filtered, created, nextEv>>

\* Logger::stop: `if (worker_.joinable()) worker_.join()`. join blocks until the
\* worker thread has finished; a thread that joins itself gets std::system_error,
\* which leaves the destructor and calls std::terminate
StopJoin(t) ==
    /\ th[t].pc = "stop_join"
    /\ LET l == th[t].l IN
        /\ ~joinable[l] \/ t = WorkerOf[l] \/ th[WorkerOf[l]].pc = "wk_exit"
        /\ crashed' = (joinable[l] /\ t = WorkerOf[l])
        /\ joinable' = IF joinable[l] /\ t = WorkerOf[l] THEN joinable
                       ELSE [joinable EXCEPT ![l] = FALSE]
        /\ th' = [th EXCEPT ![t].pc = IF joinable[l] /\ t = WorkerOf[l] THEN @
                                      ELSE "dtor_members"]
    /\ UNCHANGED <<rb, running_, threshold_level_, appenders_, root_logger_, cv_mtx_,
                   start_flag_, life, ext, conf, sinkLog, appendLog, accepted,
                   dropped, filtered, created, nextEv>>

\* the members are destroyed: root_logger_ gives up its reference, and when that
\* was the last one of the parent, ~Logger of the parent runs next on this thread
DtorMembers(t) ==
    /\ th[t].pc = "dtor_members"
    /\ LET l == th[t].l
           q == root_logger_[l]
           dead == [life EXCEPT ![l] = "dead"]
           last == q # None /\ life[q] = "alive"
                   /\ Strong(q, ext, th, root_logger_, dead) = 0
       IN /\ life' = IF last THEN [dead EXCEPT ![q] = "dying"] ELSE dead
          /\ th' = [th EXCEPT ![t] =
                      IF last THEN [@ EXCEPT !.pc = "fl_loadW", !.l = q]
                      ELSE IF t \in Workers THEN [@ EXCEPT !.pc = "wk_exit"]
                      ELSE [@ EXCEPT !.pc = "dtor_done"]]
    /\ UNCHANGED <<rb, running_, threshold_level_, appenders_, root_logger_, cv_mtx_,
                   joinable, start_flag_, ext, crashed, conf, sinkLog, appendLog, accepted,
                   dropped, filtered, created, nextEv>>

(* ------------------------- the application thread ----------------------- *)

AllSubmitted == \A p \in conf.prods : th[p].pc = "idle" /\ th[p].n = conf.K
ProducersIdle == \A p \in conf.prods : th[p].pc = "idle"

\* the application calls l->flush()
OwnerFlush(l) ==
    /\ th[Owner].pc = "idle"
    /\ ext[l] = 1
    /\ th' = [th EXCEPT ![Owner] = [@ EXCEPT !.pc = "fl_loadW", !.l = l, !.ctx = "flush",
                                             !.after = AllSubmitted,
                                             !.pre = accepted[l]]]
    /\ UNCHANGED <<rb, running_, threshold_level_, appenders_, root_logger_, cv_mtx_,
                   joinable, start_flag_, life, ext, crashed, conf, sinkLog, appendLog, accepted,
                   dropped, filtered, created, nextEv>>

\* flush() or the destructor has returned to the application
OwnerReturn ==
    /\ th[Owner].pc \in {"fl_done", "dtor_done"}
    /\ th' = [th EXCEPT ![Owner] = [@ EXCEPT !.pc = "idle", !.ctx = "none", !.after = FALSE]]
    /\ UNCHANGED <<rb, running_, threshold_level_, appenders_, root_logger_, cv_mtx_,
                   joinable, start_flag_, life, ext, crashed, conf, sinkLog, appendLog, accepted,
                   dropped, filtered, created, nextEv>>

\* the application gives up its reference to logger l while no thread is inside a
\* call on it; when it was the last reference ~Logger runs on this thread
OwnerRelease(l) ==
    /\ th[Owner].pc = "idle"
    /\ ext[l] = 1
    /\ ProducersIdle
    /\ LET e2 == [ext EXCEPT ![l] = 0]
           last == Strong(l, e2, th, root_logger_, life) = 0
       IN /\ ext' = e2
          /\ life' = IF last THEN [life EXCEPT ![l] = "dying"] ELSE life
          /\ th' = [th EXCEPT ![Owner] =
                      IF last THEN [@ EXCEPT !.pc = "fl_loadW", !.l = l, !.ctx = "dtor"]
                      ELSE @]
    /\ UNCHANGED <<rb, running_, threshold_level_, appenders_, root_logger_, cv_mtx_,
                   joinable, start_flag_, crashed, conf, sinkLog, appendLog, accepted,
                   dropped, filtered, created, nextEv>>

\* Logger::init: `std::call_once(start_flag_, [this]() { start(); })`
OwnerInit(l) ==
    /\ th[Owner].pc = "idle"
    /\ ext[l] = 1
    /\ ~start_flag_[l]
    /\ start_flag_' = [start_flag_ EXCEPT ![l] = TRUE]
    /\ th' = [th EXCEPT ![Owner] = [@ EXCEPT !.pc = "start_cas", !.l = l, !.ctx = "init"]]
    /\ UNCHANGED <<rb, running_, threshold_level_, appenders_, root_logger_, cv_mtx_,
                   joinable, life, ext, crashed, conf, sinkLog, appendLog, accepted,
                   dropped, filtered, created, nextEv>>

\* Logger::setThresholdLevel
SetThresholdLevel(l, thres) ==
    /\ th[Owner].pc = "idle"
    /\ ext[l] = 1
    /\ th[Owner].n < conf.admin
    /\ thres # threshold_level_[l]
    /\ threshold_level_' = [threshold_level_ EXCEPT ![l] = thres]
    /\ th' = [th EXCEPT ![Owner].n = @ + 1]
    /\ UNCHANGED <<rb, running_, appenders_, root_logger_, cv_mtx_,
                   joinable, start_flag_, life, ext, crashed, conf, sinkLog, appendLog, accepted,
                   dropped, filtered, created, nextEv>>

\* Logger::setRootLogger: null or an already installed root logger throws
SetRootLogger(l, root_logger) ==
    /\ th[Owner].pc = "idle"
    /\ ext[l] = 1
    /\ root_logger # None => ext[root_logger] = 1
    /\ th[Owner].n < conf.admin
    /\ root_logger_' = IF root_logger = None \/ root_logger_[l] # None THEN root_logger_
                       ELSE [root_logger_ EXCEPT ![l] = root_logger]
    /\ th' = [th EXCEPT ![Owner].n = @ + 1]
    /\ UNCHANGED <<rb, running_, threshold_level_, appenders_, cv_mtx_,
                   joinable, start_flag_, life, ext, crashed, conf, sinkLog, appendLog, accepted,
                   dropped, filtered, created, nextEv>>

SetAppender_no_check(l, appender) ==
    /\ th[Owner].pc = "idle"
    /\ ext[l] = 1
    /\ th[Owner].n < conf.admin
    /\ LET throws == appender = None IN
        /\ appenders_' = IF throws THEN appenders_
                         ELSE [appenders_ EXCEPT ![l] = Append(@, appender)]
        /\ th' = [th EXCEPT ![Owner] =
                    [@ EXCEPT !.n = @ + 1, !.l = l, !.call = <<"setAppender", appender>>,
                              !.res = IF throws THEN "invalid_parameter" ELSE "ok"]]
    /\ UNCHANGED <<rb, running_, threshold_level_, root_logger_, cv_mtx_,
                   joinable, start_flag_, life, ext, crashed, conf, sinkLog, appendLog,
                   accepted, dropped, filtered, created, nextEv>>

\* Logger::setAppender: nullptr or an appender already in the list throws
\* invalid_parameter, any other appender is put at the end of the list
SetAppender(l, appender) ==
    /\ th[Owner].pc = "idle"
    /\ ext[l] = 1
    /\ th[Owner].n < conf.admin
    /\ LET throws == appender = None \/ \E i \in 1 .. Len(appenders_[l]) :
                                            appenders_[l][i] = appender
       IN
        /\ appenders_' = IF throws THEN appenders_
                         ELSE [appenders_ EXCEPT ![l] = Append(@, appender)]
        /\ th' = [th EXCEPT ![Owner] =
                    [@ EXCEPT !.n = @ + 1, !.l = l, !.call = <<"setAppender", appender>>,
                              !.res = IF throws THEN "invalid_parameter" ELSE "ok"]]
    /\ UNCHANGED <<rb, running_, threshold_level_, root_logger_, cv_mtx_,
                   joinable, start_flag_, life, ext, crashed, conf, sinkLog, appendLog,
                   accepted, dropped, filtered, created, nextEv>>

\* std::list::erase of the element at position i
erase(list, i) == SubSeq(list, 1, i - 1) \o SubSeq(list, i + 1, Len(list))

\* Logger::removeAppender: the first element equal to the argument is erased; when
\* there is none the function throws invalid_parameter, and for nullptr the
\* `typeid(*appender)` of the message throws std::bad_typeid instead
RemoveAppender(l, appender) ==
    /\ th[Owner].pc = "idle"
    /\ ext[l] = 1
    /\ th[Owner].n < conf.admin
    /\ LET found == {i \in 1 .. Len(appenders_[l]) : appenders_[l][i] = appender}
           it == CHOOSE i \in found : \A j \in found : i <= j
       IN
        /\ appenders_' = IF found = {} THEN appenders_
                         ELSE [appenders_ EXCEPT ![l] = erase(@, it)]
        /\ th' = [th EXCEPT ![Owner] =
                    [@ EXCEPT !.n = @ + 1, !.l = l, !.call = <<"removeAppender", appender>>,
                              !.res = IF found # {} THEN "ok"
                                      ELSE IF appender = None THEN "bad_typeid"
                                      ELSE "invalid_parameter"]]
    /\ UNCHANGED <<rb, running_, threshold_level_, root_logger_, cv_mtx_,
                   joinable, start_flag_, life, ext, crashed, conf, sinkLog, appendLog,
                   accepted, dropped, filtered, created, nextEv>>

\* Logger::clearAppenders
ClearAppenders(l) ==
    /\ th[Owner].pc = "idle"
    /\ ext[l] = 1
    /\ th[Owner].n < conf.admin
    /\ appenders_' = [appenders_ EXCEPT ![l] = <<>>]
    /\ th' = [th EXCEPT ![Owner] =
                [@ EXCEPT !.n = @ + 1, !.l = l, !.call = <<"clearAppenders", None>>,
                          !.res = "ok"]]
    /\ UNCHANGED <<rb, running_, threshold_level_, root_logger_, cv_mtx_,
                   joinable, start_flag_, life, ext, crashed, conf, sinkLog, appendLog,
                   accepted, dropped, filtered, created, nextEv>>

\* the submit call of a producer: its logger and its event (kind -1 is nullptr)
SubmitAny ==
    \E p \in Producers, l \in conf.targets, k \in conf.kinds :
        Submit(p, l, IF k = -1 THEN Null ELSE EvOf(nextEv, k))

\* producers in submit() and the worker threads
PipelineStep ==
    \/ SubmitAny
    \/ \E p \in Producers : SubmitCheck(p)
    \/ \E p \in Producers : SubmitHasAppenders(p)
    \/ \E t \in Producers \cup {Owner} : StartCas(t)
    \/ \E t \in Producers \cup {Owner} : StartSpawn(t)
    \/ \E p \in Producers : SubmitPushStep(p)
    \/ \E p \in Producers : SubmitPushed(p)
    \/ \E p \in Producers : SubmitNotify(p)
    \/ \E l \in Loggers : WkTop(l)
    \/ \E l \in Loggers : WkLockCv(l)
    \/ \E l \in Loggers : WkPred(l)
    \/ \E l \in Loggers : WkBlock(l)
    \/ \E l \in Loggers : WkSpurious(l)
    \/ \E l \in Loggers : WkCheckExit(l)
    \/ \E l \in Loggers : WkPopStep(l)
    \/ \E l \in Loggers : WkPopped(l)
    \/ \E l \in Loggers : WkSnap(l)
    \/ \E l \in Loggers : WkAppend(l)
    \/ \E l \in Loggers : WkIterEnd(l)
    \/ \E l \in Loggers : WkRelease(l)

\* a thread inside flush()
FlushStep ==
    \/ \E t \in {Owner} \cup Workers : FlushLoadW(t)
    \/ \E t \in {Owner} \cup Workers : FlushLoadR(t)
    \/ \E t \in {Owner} \cup Workers : FlushSinks(t)
    \/ OwnerReturn

\* a thread inside ~Logger after its flush()
DtorStep ==
    \/ \E t \in {Owner} \cup Workers : StopCas(t)
    \/ \E t \in {Owner} \cup Workers : StopNotify(t)
    \/ \E t \in {Owner} \cup Workers : StopJoin(t)
    \/ \E t \in {Owner} \cup Workers : DtorMembers(t)

\* the loggers the application gives a root logger to, and the argument it passes
ParentInputs == {<<"child", "root">>, <<"child", None>>}

\* delegation to the root logger
DelegStep ==
    \/ \E p \in Producers : SubmitParent(p)
    \/ \E x \in ParentInputs : SetRootLogger(x[1], x[2])

ThresholdStep ==
    \E l \in conf.targets, thres \in 0 .. NumLevels - 1 : SetThresholdLevel(l, thres)

(***************************************************************************)
(* LoggerManager (logger_impl.hpp).                                        *)
(***************************************************************************)
\* calls of getLogger each thread makes
MaxGets == 2
\* the names the callers ask for
Names == {"root", "net", "db"}
\* the threads that call getLogger
GThreads == {"g1", "g2"}

\* a caller outside every call
G0 == [pc |-> "idle", name |-> "root", copy_root_logger |-> Null, logger |-> Null,
       ret |-> Null, n |-> 0,
       self |-> Null, root_logger |-> Null, was |-> Null, now |-> Null,
       res |-> "none", m |-> 0]

\* the static LoggerManager before its first use
RegInit ==
    /\ mgr = [root_logger_ |-> Null, loggers_map_ |-> {}, start_flag_ |-> FALSE,
              destroyed |-> FALSE, inits |-> 0]
    /\ heap = <<>>
    /\ gth = [t \in GThreads |-> G0]
    /\ got = {}

\* std::make_shared<Logger>(name): a new object at a fresh address
make_shared(h, name) ==
    Append(h, [name_ |-> name, root_logger_ |-> Null, appenders_ |-> <<>>,
               threshold_level_ |-> "DEBUG", running_ |-> FALSE, alive |-> TRUE,
               sets |-> 0])

setRootLogger_overwrite(self, root_logger) ==
    IF root_logger = Null THEN [self |-> self, threw |-> TRUE]
    ELSE [self |-> [self EXCEPT !.root_logger_ = root_logger, !.sets = @ + 1],
          threw |-> FALSE]
\* Logger::setRootLogger on the object `self`: the object afterwards and whether
\* invalid_parameter was thrown; `sets` counts the calls that installed a parent
setRootLogger(self, root_logger) ==
    IF root_logger = Null \/ self.root_logger_ # Null
    THEN [self |-> self, threw |-> TRUE]
    ELSE [self |-> [self EXCEPT !.root_logger_ = root_logger, !.sets = @ + 1],
          threw |-> FALSE]

\* loggers_map_.find(name): the mapped address, Null for end()
find(map, name) ==
    IF \E x \in map : x[1] = name THEN (CHOOSE x \in map : x[1] = name)[2] ELSE Null

try_emplace_overwrite(map, name, logger) ==
    [map |-> {x \in map : x[1] # name} \cup {<<name, logger>>}, it |-> logger,
     inserted |-> TRUE]
\* loggers_map_.try_emplace(name, logger): no effect when the key is present
try_emplace(map, name, logger) ==
    IF find(map, name) # Null
    THEN [map |-> map, it |-> find(map, name), inserted |-> FALSE]
    ELSE [map |-> map \cup {<<name, logger>>}, it |-> logger, inserted |-> TRUE]

\* a thread calls getLogger(name): LoggerManager::getInstance() first
GetLoggerCall(t, name) ==
    /\ gth[t].pc = "idle"
    /\ gth[t].n < MaxGets
    /\ ~mgr.destroyed
    /\ gth' = [gth EXCEPT ![t] = [G0 EXCEPT !.pc = "instance", !.name = name,
                                            !.n = gth[t].n + 1, !.m = gth[t].m]]
    /\ UNCHANGED <<mgr, heap, got>>

ManagerInit_every_call(t) ==
    /\ gth[t].pc = "instance"
    /\ LET root == Len(heap) + 1 IN
        /\ heap' = [make_shared(heap, "root") EXCEPT
                      ![root].appenders_ = <<"console">>, ![root].running_ = TRUE]
        /\ mgr' = [mgr EXCEPT !.start_flag_ = TRUE, !.root_logger_ = root,
                              !.inits = mgr.inits + 1,
                              !.loggers_map_ = {x \in @ : x[1] # "root"}
                                               \cup {<<"root", root>>}]
    /\ gth' = [gth EXCEPT ![t].pc = "get_root"]
    /\ UNCHANGED got
\* LoggerManager::init inside getInstance(): std::call_once runs the body for the
\* first caller, every other caller waits for it; the body makes the root logger
\* with its console appender, maps it and starts it (inits counts the runs)
ManagerInit(t) ==
    /\ gth[t].pc = "instance"
    /\ IF mgr.start_flag_
       THEN UNCHANGED <<mgr, heap>>
       ELSE LET root == Len(heap) + 1 IN
            /\ heap' = [make_shared(heap, "root") EXCEPT
                          ![root].appenders_ = <<"console">>, ![root].running_ = TRUE]
            /\ mgr' = [mgr EXCEPT !.start_flag_ = TRUE, !.root_logger_ = root,
                                  !.inits = mgr.inits + 1,
                                  !.loggers_map_ = @ \cup {<<"root", root>>}]
    /\ gth' = [gth EXCEPT ![t].pc = "get_root"]
    /\ UNCHANGED got

\* `if (name == "root") return root_logger_;` under the shared lock
GetRoot(t) ==
    /\ gth[t].pc = "get_root"
    /\ gth' = [gth EXCEPT ![t] =
                 IF gth[t].name = "root"
                 THEN [@ EXCEPT !.pc = "return", !.ret = mgr.root_logger_]
                 ELSE [@ EXCEPT !.pc = "get_find"]]
    /\ UNCHANGED <<mgr, heap, got>>

\* `it = loggers_map_.find(name); if (it != end()) return it->second;` under the
\* shared lock
GetFind(t) ==
    /\ gth[t].pc = "get_find"
    /\ LET it == find(mgr.loggers_map_, gth[t].name) IN
        gth' = [gth EXCEPT ![t] =
                  IF it # Null THEN [@ EXCEPT !.pc = "return", !.ret = it]
                  ELSE [@ EXCEPT !.pc = "get_copy"]]
    /\ UNCHANGED <<mgr, heap, got>>

\* `copy_root_logger = root_logger_;` under the shared lock
GetCopyRoot(t) ==
    /\ gth[t].pc = "get_copy"
    /\ gth' = [gth EXCEPT ![t] = [@ EXCEPT !.pc = "get_make",
                                           !.copy_root_logger = mgr.root_logger_]]
    /\ UNCHANGED <<mgr, heap, got>>

\* `logger = std::make_shared<Logger>(name); logger->setRootLogger(copy_root_logger);`
GetMake(t) ==
    /\ gth[t].pc = "get_make"
    /\ gth[t].copy_root_logger # Null
    /\ LET logger == Len(heap) + 1 IN
        /\ heap' = [make_shared(heap, gth[t].name) EXCEPT
                      ![logger] = setRootLogger(@, gth[t].copy_root_logger).self]
        /\ gth' = [gth EXCEPT ![t] = [@ EXCEPT !.pc = "get_emplace", !.logger = logger]]
    /\ UNCHANGED <<mgr, got>>

\* `auto [it, inserted] = loggers_map_.try_emplace(name, logger);` under the unique
\* lock; when another thread inserted first its logger is returned and the one made
\* here is destroyed with the local shared_ptr
GetEmplace(t) ==
    /\ gth[t].pc = "get_emplace"
    /\ LET e == try_emplace(mgr.loggers_map_, gth[t].name, gth[t].logger) IN
        /\ mgr' = [mgr EXCEPT !.loggers_map_ = e.map]
        /\ gth' = [gth EXCEPT ![t] = [@ EXCEPT !.pc = "return",
                                               !.ret = IF e.inserted THEN gth[t].logger ELSE e.it]]
        /\ heap' = IF e.inserted THEN heap
                   ELSE [heap EXCEPT ![gth[t].logger].alive = FALSE]
    /\ UNCHANGED got

\* getLogger returns to its caller
GetReturn(t) ==
    /\ gth[t].pc = "return"
    /\ got' = got \cup {<<gth[t].name, gth[t].ret>>}
    /\ gth' = [gth EXCEPT ![t].pc = "idle"]
    /\ UNCHANGED <<mgr, heap>>

\* LoggerManager::destroy from ~LoggerManager at process exit: the map is cleared;
\* loggers the application still holds stay alive
ManagerDestroy ==
    /\ mgr.start_flag_ /\ ~mgr.destroyed
    /\ \A t \in GThreads : gth[t].pc = "idle" /\ gth[t].n = MaxGets
    /\ mgr' = [mgr EXCEPT !.loggers_map_ = {}, !.destroyed = TRUE]
    /\ UNCHANGED <<heap, gth, got>>

RegNext ==
    /\ UNCHANGED <<ringVars, logVars, fileVars, pp, ws, lk>>
    /\ \/ \E t \in GThreads, name \in Names : GetLoggerCall(t, name)
       \/ \E t \in GThreads : ManagerInit(t)
       \/ \E t \in GThreads : GetRoot(t)
       \/ \E t \in GThreads : GetFind(t)
       \/ \E t \in GThreads : GetCopyRoot(t)
       \/ \E t \in GThreads : GetMake(t)
       \/ \E t \in GThreads : GetEmplace(t)
       \/ \E t \in GThreads : GetReturn(t)
       \/ ManagerDestroy

\* calls of setRootLogger each thread makes
MaxSets == 1

\* the loggers getLogger has handed out
Handed == {x[2] : x \in got}

\* a thread calls self->setRootLogger(root_logger) on a logger it got from
\* getLogger, with another such logger, the same one, or nullptr
SetRootCall(t, self, root_logger) ==
    /\ gth[t].pc = "idle"
    /\ gth[t].m < MaxSets
    /\ ~mgr.destroyed
    /\ gth' = [gth EXCEPT ![t] = [G0 EXCEPT !.pc = "srl_null", !.self = self,
                                            !.root_logger = root_logger,
                                            !.n = gth[t].n, !.m = gth[t].m + 1]]
    /\ UNCHANGED <<mgr, heap, got>>

\* `if (root_logger == nullptr) throw invalid_parameter(...)`, before the lock
SetRootNullCheck(t) ==
    /\ gth[t].pc = "srl_null"
    /\ gth' = [gth EXCEPT ![t] =
                 IF gth[t].root_logger = Null
                 THEN [@ EXCEPT !.pc = "idle", !.res = "invalid_parameter",
                                !.was = heap[gth[t].self].root_logger_,
                                !.now = heap[gth[t].self].root_logger_]
                 ELSE [@ EXCEPT !.pc = "srl_locked"]]
    /\ UNCHANGED <<mgr, heap, got>>

\* under write_lk: `if (root_logger_ != nullptr) throw ...; root_logger_ = root_logger;`
SetRootLocked(t) ==
    /\ gth[t].pc = "srl_locked"
    /\ LET r == setRootLogger(heap[gth[t].self], gth[t].root_logger) IN
        /\ heap' = [heap EXCEPT ![gth[t].self] = r.self]
        /\ gth' = [gth EXCEPT ![t] =
                     [@ EXCEPT !.pc = "idle",
                               !.res = IF r.threw THEN "invalid_parameter" ELSE "ok",
                               !.was = heap[gth[t].self].root_logger_,
                               !.now = r.self.root_logger_]]
    /\ UNCHANGED <<mgr, got>>

\* the names asked for by the threads that also call setRootLogger
ParentNames == {"root", "net"}

\* getLogger and setRootLogger called from several threads
ParentNext ==
    /\ UNCHANGED <<ringVars, logVars, fileVars, pp, ws, lk>>
    /\ \/ \E t \in GThreads, name \in ParentNames : GetLoggerCall(t, name)
       \/ \E t \in GThreads : ManagerInit(t)
       \/ \E t \in GThreads : GetRoot(t)
       \/ \E t \in GThreads : GetFind(t)
       \/ \E t \in GThreads : GetCopyRoot(t)
       \/ \E t \in GThreads : GetMake(t)
       \/ \E t \in GThreads : GetEmplace(t)
       \/ \E t \in GThreads : GetReturn(t)
       \/ ManagerDestroy
       \/ \E t \in GThreads, self \in Handed, root_logger \in Handed \cup {Null} :
             SetRootCall(t, self, root_logger)
       \/ \E t \in GThreads : SetRootNullCheck(t)
       \/ \E t \in GThreads : SetRootLocked(t)

(***************************************************************************)
(* FileAppender (file_appender_impl.hpp).                                  *)
(***************************************************************************)
\* largest max_backup_num_ the application sets
MaxBackupNum == 2
\* append calls of one run
MaxAppends == 4
\* capacity() of an empty std::string (small-string buffer)
SsoCapacity == 15
\* the buffer_capacity arguments of the constructor
BufferRequests == {0, 32}
\* calls of setMaxFileSize and setMaxBackupNum after the first append
MaxSetCalls == 1
\* the arguments of setMaxFileSize (0: no limit)
MaxFileSizes == {0, 16}
\* sizes of the formatted messages, newline included
MsgSizes == {8, 20}
\* the log file at construction: none, or one left by an earlier run
OldFiles == {[exists |-> FALSE, data |-> <<>>],
             [exists |-> TRUE, data |-> <<[id |-> 0, size |-> 12]>>]}

NoFile == [exists |-> FALSE, data |-> <<>>]
EmptyFile == [exists |-> TRUE, data |-> <<>>]

\* bytes of a sequence of messages
RECURSIVE Bytes(_)
Bytes(data) ==
    IF data = <<>> THEN 0
    ELSE IF Len(data) = 1 THEN data[1].size
    ELSE LET half == Len(data) \div 2
         IN Bytes(SubSeq(data, 1, half)) + Bytes(SubSeq(data, half + 1, Len(data)))

\* the appender, the directory and the rotation history as one value
FileState == [a |-> fapp, d |-> disk, r |-> fghost.rotated]

\* FileAppender::open
open(st, is_trunc) ==
    [st EXCEPT !.a.is_open = TRUE,
               !.a.file_size_ = IF is_trunc THEN 0 ELSE st.a.file_size_,
               !.d[0] = IF is_trunc \/ ~st.d[0].exists THEN EmptyFile ELSE st.d[0]]

\* rotateFile: `for (i = max_backup_num_; i > 1; i--) if (exists(backup(i-1)))
\* rename(backup(i-1), backup(i))`
RECURSIVE ShiftBackups(_, _)
ShiftBackups(d, i) ==
    IF i <= 1 THEN d
    ELSE ShiftBackups(IF d[i - 1].exists THEN [d EXCEPT ![i] = d[i - 1], ![i - 1] = NoFile]
                      ELSE d,
                      i - 1)

RotateBackups_no_shift(d, N) ==
    IF d[0].exists THEN [d EXCEPT ![1] = d[0], ![0] = NoFile] ELSE d
\* rotateFile with max_backup_num_ > 0: remove the oldest backup, shift the
\* others up by one, rename file_path_ to the first backup
RotateBackups(d, N) ==
    LET dA == [d EXCEPT ![N] = NoFile]
        dB == ShiftBackups(dA, N)
    IN IF dB[0].exists THEN [dB EXCEPT ![1] = dB[0], ![0] = NoFile] ELSE dB

rotateFile_always_backup(st) ==
    LET d1 == RotateBackups(st.d, IF st.a.max_backup_num_ > 0
                                  THEN st.a.max_backup_num_ ELSE 1)
    IN open([st EXCEPT !.a.is_open = FALSE, !.a.file_size_ = 0, !.d = d1,
                       !.r = Append(st.r, st.d[0].data)], TRUE)
\* FileAppender::rotateFile
rotateFile(st) ==
    LET d1 == IF st.a.max_backup_num_ > 0
              THEN RotateBackups(st.d, st.a.max_backup_num_)
              ELSE [st.d EXCEPT ![0] = NoFile]
    IN open([st EXCEPT !.a.is_open = FALSE, !.a.file_size_ = 0, !.d = d1,
                       !.r = Append(st.r, st.d[0].data)], TRUE)

WriteAndRotate_above_only(st, data) ==
    LET s1 == IF st.a.is_open THEN st ELSE open(st, FALSE)
        s2 == [s1 EXCEPT !.d[0].data = s1.d[0].data \o data,
                         !.a.file_size_ = s1.a.file_size_ + Bytes(data)]
    IN [s |-> s2,
        rotate |-> s2.a.max_file_size_ > 0 /\ s2.a.file_size_ > s2.a.max_file_size_]
\* `file_stream_.write(...); file_size_ += ...;` then the rotation test
WriteAndRotate(st, data) ==
    LET s1 == IF st.a.is_open THEN st ELSE open(st, FALSE)
        s2 == [s1 EXCEPT !.d[0].data = s1.d[0].data \o data,
                         !.a.file_size_ = s1.a.file_size_ + Bytes(data)]
    IN [s |-> s2,
        rotate |-> s2.a.max_file_size_ > 0 /\ s2.a.file_size_ >= s2.a.max_file_size_]

flushToBuffer_keeps_buffer(st) ==
    IF st.a.buffer_ = <<>> THEN st
    ELSE LET w == WriteAndRotate(st, st.a.buffer_)
         IN IF w.rotate THEN rotateFile(w.s) ELSE w.s
\* FileAppender::flushToBuffer
flushToBuffer(st) ==
    IF st.a.buffer_ = <<>> THEN st
    ELSE LET w == WriteAndRotate(st, st.a.buffer_)
             s3 == [w.s EXCEPT !.a.buffer_ = <<>>]
         IN IF w.rotate THEN rotateFile(s3) ELSE s3

append_discards_buffer(st, msg, grow) ==
    IF st.a.capacity = 0
    THEN LET w == WriteAndRotate(st, <<msg>>)
         IN IF w.rotate THEN rotateFile(w.s) ELSE w.s
    ELSE LET s1 == IF Bytes(st.a.buffer_) + msg.size > st.a.capacity
                   THEN [st EXCEPT !.a.buffer_ = <<>>] ELSE st
             need == Bytes(s1.a.buffer_) + msg.size
         IN [s1 EXCEPT !.a.buffer_ = Append(s1.a.buffer_, msg),
                       !.a.capacity = IF need <= s1.a.capacity THEN s1.a.capacity
                                      ELSE IF grow /\ 2 * s1.a.capacity > need
                                           THEN 2 * s1.a.capacity ELSE need]
\* FileAppender::append of a formatted message; `grow` is whether std::string
\* doubles its capacity when the message does not fit
append(st, msg, grow) ==
    IF st.a.capacity = 0
    THEN LET w == WriteAndRotate(st, <<msg>>)
         IN IF w.rotate THEN rotateFile(w.s) ELSE w.s
    ELSE LET s1 == IF Bytes(st.a.buffer_) + msg.size > st.a.capacity
                   THEN flushToBuffer(st) ELSE st
             need == Bytes(s1.a.buffer_) + msg.size
         IN [s1 EXCEPT !.a.buffer_ = Append(s1.a.buffer_, msg),
                       !.a.capacity = IF need <= s1.a.capacity THEN s1.a.capacity
                                      ELSE IF grow /\ 2 * s1.a.capacity > need
                                           THEN 2 * s1.a.capacity ELSE need]

\* FileAppender::flush
flush(st) == flushToBuffer(st)

\* std::string::reserve(buffer_capacity) on an empty string
Reserved(buffer_capacity) ==
    IF buffer_capacity > SsoCapacity THEN buffer_capacity ELSE SsoCapacity

\* FileAppender::FileAppender, then setMaxFileSize and setMaxBackupNum
NewFileAppender(old, is_trunc, buffer_capacity, max_size, max_num) ==
    open([a |-> [buffer_ |-> <<>>, capacity |-> Reserved(buffer_capacity),
                 file_size_ |-> IF old.exists /\ ~is_trunc THEN Bytes(old.data) ELSE 0,
                 max_file_size_ |-> max_size, max_backup_num_ |-> max_num,
                 is_trunc_ |-> is_trunc, is_open |-> FALSE],
          d |-> [i \in 0 .. MaxBackupNum + 1 |-> IF i = 0 THEN old ELSE NoFile],
          r |-> <<>>],
         is_trunc)

\* the appender after construction: the log file may be left from an earlier run
FileStart(old, is_trunc, buffer_capacity, max_size, max_num) ==
    LET st == NewFileAppender(old, is_trunc, buffer_capacity, max_size, max_num) IN
    /\ fapp = st.a
    /\ disk = st.d
    /\ fghost = [rotated |-> <<>>, n |-> 0, op |-> "new", rotations |-> 0,
                 nums |-> {max_num}, sets |-> 0, flushes |-> 0, sizes |-> {max_size}]

FileInit ==
    \E old \in OldFiles,
       is_trunc \in BOOLEAN, buffer_capacity \in BufferRequests,
       max_size \in MaxFileSizes, max_num \in 0 .. MaxBackupNum :
        FileStart(old, is_trunc, buffer_capacity, max_size, max_num)

\* the specifications without a file appender
FileUnused == FileStart(NoFile, TRUE, 0, 0, 0)

\* the worker calls append(event); the formatted message has `size` bytes
AppendCall(size, grow, limit) ==
    /\ fghost.n < limit
    /\ LET st == append(FileState, [id |-> fghost.n + 1, size |-> size], grow) IN
        /\ fapp' = st.a
        /\ disk' = st.d
        /\ fghost' = [fghost EXCEPT !.rotated = st.r, !.n = fghost.n + 1,
                                    !.op = "append", !.flushes = 0,
                                    !.rotations = Len(st.r) - Len(fghost.rotated)]

FileAppend(size, grow) == AppendCall(size, grow, MaxAppends)

\* flush() is called
FileFlush ==
    /\ LET st == flush(FileState) IN
        /\ fapp' = st.a
        /\ disk' = st.d
        /\ fghost' = [fghost EXCEPT !.rotated = st.r, !.op = "flush",
                                    !.flushes = IF fghost.flushes = 0 THEN 1 ELSE 2,
                                    !.rotations = Len(st.r) - Len(fghost.rotated)]

\* FileAppender::setMaxFileSize
setMaxFileSize(max_file_size) ==
    /\ fghost.sets < MaxSetCalls
    /\ fapp' = [fapp EXCEPT !.max_file_size_ = max_file_size]
    /\ fghost' = [fghost EXCEPT !.sets = fghost.sets + 1, !.op = "set", !.rotations = 0,
                                !.sizes = fghost.sizes \cup {max_file_size}]
    /\ UNCHANGED disk

\* FileAppender::setMaxBackupNum
setMaxBackupNum(max_backup_num) ==
    /\ fghost.sets < MaxSetCalls
    /\ fapp' = [fapp EXCEPT !.max_backup_num_ = max_backup_num]
    /\ fghost' = [fghost EXCEPT !.sets = fghost.sets + 1, !.op = "set", !.rotations = 0,
                                !.nums = fghost.nums \cup {max_backup_num}]
    /\ UNCHANGED disk

FileNext ==
    /\ UNCHANGED <<ringVars, logVars, regVars, pp, ws, lk>>
    /\ \/ \E size \in MsgSizes, grow \in BOOLEAN : FileAppend(size, grow)
       \/ FileFlush
       \/ \E max_file_size \in MaxFileSizes : setMaxFileSize(max_file_size)
       \/ \E max_backup_num \in 0 .. MaxBackupNum : setMaxBackupNum(max_backup_num)

(***************************************************************************)
(* ComponentFactory::parsePattern (formatter_impl.hpp).                    *)
(***************************************************************************)
\* longest pattern, in characters
MaxLen == 4
\* std::isalpha: the letters of the patterns
Letters == {"t", "p", "i", "f", "n", "l", "m", "s", "x"}
\* the characters of the patterns
Alphabet == Letters \cup {"%", "[", " "}
\* the pattern of the test and of the documentation
ExamplePattern == <<"[", "%", "t", "]", " ", "%", "p", " ", "%", "m">>
\* the patterns parsed
Patterns ==
    UNION {[1 .. n -> Alphabet] : n \in 0 .. MaxLen} \cup {ExamplePattern}

\* pattern.substr(pos, count), positions counted from 0
substr(pattern, pos, count) == SubSeq(pattern, pos + 1, pos + count)

\* the state of the parse loop before its first iteration
ParseStart(pattern) ==
    [pattern |-> pattern, state |-> "NORMAL_TEXT", lpos |-> 0, rpos |-> 0,
     pattern_components |-> <<>>]

ParseChar_emits_empty(ps) ==
    LET size == Len(ps.pattern)
        curr_char == IF ps.rpos < size THEN ps.pattern[ps.rpos + 1] ELSE "\\0"
        token == substr(ps.pattern, ps.lpos, ps.rpos - ps.lpos)
    IN IF ps.state = "NORMAL_TEXT"
       THEN IF curr_char = "%" \/ curr_char = "\\0"
            THEN LET emitted == Append(ps.pattern_components,
                                       [type |-> <<"s">>, format |-> token])
                 IN IF curr_char = "%"
                    THEN [ps EXCEPT !.pattern_components = emitted,
                                    !.lpos = ps.rpos + 1, !.state = "PATTERN_CHAR",
                                    !.rpos = ps.rpos + 1]
                    ELSE [ps EXCEPT !.pattern_components = emitted, !.rpos = ps.rpos + 1]
            ELSE [ps EXCEPT !.rpos = ps.rpos + 1]
       ELSE IF curr_char \notin Letters
            THEN [ps EXCEPT !.pattern_components =
                                IF ps.lpos < ps.rpos
                                THEN Append(ps.pattern_components,
                                            [type |-> token, format |-> <<>>])
                                ELSE ps.pattern_components,
                            !.state = "NORMAL_TEXT", !.lpos = ps.rpos]
            ELSE [ps EXCEPT !.rpos = ps.rpos + 1]
\* one iteration of `while (rpos <= size)`: the switch on the state, then rpos++
\* unless the iteration ended with `continue`
ParseChar_stays_in_pattern(ps) ==
    LET size == Len(ps.pattern)
        curr_char == IF ps.rpos < size THEN ps.pattern[ps.rpos + 1] ELSE "\\0"
        token == substr(ps.pattern, ps.lpos, ps.rpos - ps.lpos)
    IN IF ps.state = "NORMAL_TEXT"
       THEN IF curr_char = "%" \/ curr_char = "\\0"
            THEN LET emitted == IF ps.lpos < ps.rpos
                                THEN Append(ps.pattern_components,
                                            [type |-> <<"s">>, format |-> token])
                                ELSE ps.pattern_components
                 IN IF curr_char = "%"
                    THEN [ps EXCEPT !.pattern_components = emitted,
                                    !.lpos = ps.rpos + 1, !.state = "PATTERN_CHAR",
                                    !.rpos = ps.rpos + 1]
                    ELSE [ps EXCEPT !.pattern_components = emitted, !.rpos = ps.rpos + 1]
            ELSE [ps EXCEPT !.rpos = ps.rpos + 1]
       ELSE IF curr_char \notin Letters
            THEN [ps EXCEPT !.pattern_components =
                                IF ps.lpos < ps.rpos
                                THEN Append(ps.pattern_components,
                                            [type |-> token, format |-> <<>>])
                                ELSE ps.pattern_components,
                            !.lpos = ps.rpos]
            ELSE [ps EXCEPT !.rpos = ps.rpos + 1]

ParseChar(ps) ==
    LET size == Len(ps.pattern)
        curr_char == IF ps.rpos < size THEN ps.pattern[ps.rpos + 1] ELSE "\\0"
        token == substr(ps.pattern, ps.lpos, ps.rpos - ps.lpos)
    IN IF ps.state = "NORMAL_TEXT"
       THEN IF curr_char = "%" \/ curr_char = "\\0"
            THEN LET emitted == IF ps.lpos < ps.rpos
                                THEN Append(ps.pattern_components,
                                            [type |-> <<"s">>, format |-> token])
                                ELSE ps.pattern_components
                 IN IF curr_char = "%"
                    THEN [ps EXCEPT !.pattern_components = emitted,
                                    !.lpos = ps.rpos + 1, !.state = "PATTERN_CHAR",
                                    !.rpos = ps.rpos + 1]
                    ELSE [ps EXCEPT !.pattern_components = emitted, !.rpos = ps.rpos + 1]
            ELSE [ps EXCEPT !.rpos = ps.rpos + 1]
       ELSE IF curr_char \notin Letters
            THEN [ps EXCEPT !.pattern_components =
                                IF ps.lpos < ps.rpos
                                THEN Append(ps.pattern_components,
                                            [type |-> token, format |-> <<>>])
                                ELSE ps.pattern_components,
                            !.state = "NORMAL_TEXT", !.lpos = ps.rpos]
            ELSE [ps EXCEPT !.rpos = ps.rpos + 1]

\* `while (rpos <= size)`
RECURSIVE ParseLoop(_)
ParseLoop(ps) ==
    IF ps.rpos <= Len(ps.pattern) THEN ParseLoop(ParseChar(ps))
    ELSE ps.pattern_components

\* the registration of one parsed component: `if (type == "t") ... else if ...`
Registered(c) ==
    CASE c.type = <<"t">> -> <<[key |-> "timestamp", format |-> <<>>]>>
      [] c.type = <<"p">> -> <<[key |-> "level", format |-> <<>>]>>
      [] c.type = <<"i">> -> <<[key |-> "tid", format |-> <<>>]>>
      [] c.type = <<"f">> -> <<[key |-> "loc", format |-> <<"{file_name}">>]>>
      [] c.type = <<"n">> -> <<[key |-> "loc", format |-> <<"{function_name}">>]>>
      [] c.type = <<"l">> -> <<[key |-> "loc", format |-> <<"{line}">>]>>
      [] c.type = <<"m">> -> <<[key |-> "msg", format |-> <<>>]>>
      [] c.type = <<"s">> -> <<[key |-> "text", format |-> c.format]>>
      [] OTHER -> <<>>

\* `for (const auto& [type, format]: pattern_components)`
RECURSIVE RegisterAll(_)
RegisterAll(components) ==
    IF components = <<>> THEN <<>>
    ELSE Registered(Head(components)) \o RegisterAll(Tail(components))

\* ComponentFactory::parsePattern: registered_components_ for the pattern
parsePattern(pattern) == RegisterAll(ParseLoop(ParseStart(pattern)))

\* a pattern string that no factory has been made from yet
ParseInit == \E pattern \in Patterns :
    pp = [pc |-> "new", pattern |-> pattern, registered_components_ |-> <<>>]

\* the specifications without a pattern
ParseUnused == pp = [pc |-> "new", pattern |-> <<>>, registered_components_ |-> <<>>]

\* ComponentFactory::ComponentFactory(pattern) calls parsePattern
NewComponentFactory ==
    /\ pp.pc = "new"
    /\ pp' = [pp EXCEPT !.pc = "parsed",
                        !.registered_components_ = parsePattern(pp.pattern)]

\* the formatter reads the registered components
GetRegisteredComponents ==
    /\ pp.pc = "parsed"
    /\ pp' = [pp EXCEPT !.pc = "used"]

\* parsePattern is called: the locals before the first iteration of the loop
ScanStart(pattern) ==
    [pc |-> "loop", pattern |-> pattern, registered_components_ |-> <<>>,
     ps |-> ParseStart(pattern), iterations |-> 0, advanced |-> TRUE, eol |-> 0]

\* one iteration of `while (rpos <= size)`; iterations counts them, advanced is
\* whether this one moved rpos, eol counts the iterations that saw the end of the
\* input in NORMAL_TEXT
ScanStep ==
    /\ pp.pc = "loop"
    /\ pp.ps.rpos <= Len(pp.pattern)
    /\ pp.iterations <= 2 * (Len(pp.pattern) + 1) + 1
    /\ LET next == ParseChar(pp.ps) IN
        pp' = [pp EXCEPT !.ps = next, !.iterations = @ + 1,
                         !.advanced = next.rpos # pp.ps.rpos,
                         !.eol = IF pp.ps.rpos = Len(pp.pattern)
                                    /\ pp.ps.state = "NORMAL_TEXT" THEN @ + 1 ELSE @]

\* the loop test fails and the components are registered
ScanEnd ==
    /\ pp.pc = "loop"
    /\ pp.ps.rpos > Len(pp.pattern)
    /\ pp' = [pp EXCEPT !.pc = "scanned",
                        !.registered_components_ = RegisterAll(pp.ps.pattern_components)]

ScanNext ==
    /\ UNCHANGED <<ringVars, logVars, regVars, fileVars, ws, lk>>
    /\ (ScanStep \/ ScanEnd)

ParseNext ==
    /\ UNCHANGED <<ringVars, logVars, regVars, fileVars, ws, lk>>
    /\ (NewComponentFactory \/ GetRegisteredComponents)

(***************************************************************************)
(* WebsocketAppender (websocket_appender_impl.hpp).                        *)
(***************************************************************************)
\* messages the websocket client delivers to on_message in one run
MaxWsEvents == 3
\* append calls of the worker in one run
MaxWsAppends == 2
\* ix::WebSocketMessageType of the messages, and the payloads of Message
WsMessages ==
    [type : {"Open", "Close", "Error", "Ping", "Pong"}, level : {0}]
        \cup [type : {"SET_LEVEL"}, level : 0 .. NumLevels - 1]
        \cup [type : {"Message"}, level : {0}]

\* BaseAppender::getThresholdLevel
getThresholdLevel(a) == a.threshold_level_
\* BaseAppender::setThresholdLevel
setThresholdLevel(a, level) == [a EXCEPT !.threshold_level_ = level]

\* WebsocketAppender::WebsocketAppender: connected_ { false }; `last` is the most
\* recent Open, Close or Error delivered, `sent` the frames given to sendBinary
\* with the flag and threshold at that moment, t the thread inside append (conn
\* is the value it loaded from connected_)
NewWebsocketAppender(level) ==
    [connected_ |-> FALSE, threshold_level_ |-> level, last |-> "none",
     events |-> 0, appends |-> 0, skipped |-> 0, sent |-> <<>>, feedback |-> 0,
     t |-> [pc |-> "idle", level |-> 0, curr_level |-> 0, conn |-> FALSE]]

WsInit == \E level \in 0 .. NumLevels - 1 : ws = NewWebsocketAppender(level)

\* the specifications without a websocket appender
WsUnused == ws = NewWebsocketAppender(0)

\* WebsocketAppender::on_message, called by the websocket client's thread
on_message(msg) ==
    /\ ws.events < MaxWsEvents
    /\ ws' = LET a == [ws EXCEPT !.events = ws.events + 1] IN
             CASE msg.type = "Open" -> [a EXCEPT !.connected_ = TRUE, !.last = "Open"]
               [] msg.type \in {"Close", "Error"} ->
                    [a EXCEPT !.connected_ = FALSE, !.last = msg.type]
               [] msg.type = "SET_LEVEL" ->
                    [setThresholdLevel(a, msg.level) EXCEPT !.feedback = a.feedback + 1]
               [] OTHER -> a

\* WebsocketAppender::append(event): `curr_level = getThresholdLevel()`
WsAppendCall(level) ==
    /\ ws.t.pc = "idle"
    /\ ws.appends < MaxWsAppends
    /\ ws' = [ws EXCEPT !.appends = ws.appends + 1,
                        !.t = [pc |-> "check", level |-> level,
                               curr_level |-> getThresholdLevel(ws), conn |-> FALSE]]

WsAppendCheck_send_when_closed ==
    /\ ws.t.pc = "check"
    /\ ws' = IF ws.t.level < ws.t.curr_level
             THEN [ws EXCEPT !.t.pc = "idle", !.skipped = ws.skipped + 1]
             ELSE [ws EXCEPT !.t.pc = "send", !.t.conn = ws.connected_]
\* `if (!connected_.load() || event->getLogLevel() < curr_level) return;`
WsAppendCheck ==
    /\ ws.t.pc = "check"
    /\ ws' = IF ~ws.connected_ \/ ws.t.level < ws.t.curr_level
             THEN [ws EXCEPT !.t.pc = "idle", !.skipped = ws.skipped + 1]
             ELSE [ws EXCEPT !.t.pc = "send", !.t.conn = ws.connected_]

\* the message is serialized and `ws_.sendBinary(binary_msg)` is called
WsAppendSend ==
    /\ ws.t.pc = "send"
    /\ ws' = [ws EXCEPT !.t.pc = "idle",
                        !.sent = Append(ws.sent,
                                        [level |-> ws.t.level,
                                         curr_level |-> ws.t.curr_level,
                                         conn |-> ws.t.conn,
                                         connected_ |-> ws.connected_,
                                         threshold_level_ |-> ws.threshold_level_])]

WsNext ==
    /\ UNCHANGED <<ringVars, logVars, regVars, fileVars, pp, lk>>
    /\ \/ \E msg \in WsMessages : on_message(msg)
       \/ \E level \in 0 .. NumLevels - 1 : WsAppendCall(level)
       \/ WsAppendCheck
       \/ WsAppendSend

(***************************************************************************)
(* The locks of a Logger and of its sinks (logger_impl.hpp, appender.hpp,  *)
(* file_appender_impl.hpp): cv_mtx_, the reader/writer lock rw_mtx_ and    *)
(* app_mtx_ of every sink, as a producer in submit(), the worker and two   *)
(* application threads take and release them.                              *)
(***************************************************************************)
AppThreads == {"a1", "a2"}
LockThreads == {"p1", "w_root"} \cup AppThreads

\* a started logger with the sink s1, its worker at the top of the loop
NewLocks ==
    [pc |-> [t \in LockThreads |-> IF t = "w_root" THEN "wk_lockcv" ELSE "idle"],
     cv_mtx_ |-> Free, writer |-> Free, readers |-> {},
     app_mtx_ |-> [s \in Sinks |-> Free],
     appenders_ |-> <<"s1">>, size |-> 0,
     copy |-> <<>>, i |-> 0,
     it |-> [a \in AppThreads |-> 0], arg |-> [a \in AppThreads |-> None]]

LockInit == lk = NewLocks
LockUnused == lk = NewLocks

\* std::shared_mutex: a shared lock is granted while no thread owns the mutex
\* exclusively, an exclusive lock while no thread owns it at all
CanLockShared(k) == k.writer = Free
CanLockUnique(k) == k.writer = Free /\ k.readers = {}

LkSubmit_keeps_read_lock(p) ==
    \/ /\ lk.pc[p] = "idle"
       /\ lk' = [lk EXCEPT !.pc[p] = "sub_lk"]
    \/ /\ lk.pc[p] = "sub_lk" /\ CanLockShared(lk)
       /\ lk' = [lk EXCEPT !.readers = @ \cup {p}, !.pc[p] = "sub_has"]
    \/ /\ lk.pc[p] = "sub_has"
       /\ lk' = IF lk.appenders_ # <<>>
                THEN [lk EXCEPT !.pc[p] = "sub_push"]
                ELSE [lk EXCEPT !.readers = @ \ {p}, !.pc[p] = "sub_parent_lk"]
    \/ /\ lk.pc[p] = "sub_push"
       /\ lk' = IF lk.size < Capacity
                THEN [lk EXCEPT !.size = @ + 1, !.pc[p] = "sub_cv"]
                ELSE [lk EXCEPT !.readers = @ \ {p}, !.pc[p] = "idle"]
    \/ /\ lk.pc[p] = "sub_cv" /\ lk.cv_mtx_ = Free
       /\ lk' = [lk EXCEPT !.cv_mtx_ = p, !.pc[p] = "sub_notify"]
    \/ /\ lk.pc[p] = "sub_notify"
       /\ lk' = [lk EXCEPT !.cv_mtx_ = Free, !.readers = @ \ {p}, !.pc[p] = "idle",
                           !.pc["w_root"] = IF @ = "wk_waiting" THEN "wk_reacq" ELSE @]
    \/ /\ lk.pc[p] = "sub_parent_lk" /\ CanLockShared(lk)
       /\ lk' = [lk EXCEPT !.readers = @ \cup {p}, !.pc[p] = "sub_parent"]
    \/ /\ lk.pc[p] = "sub_parent"
       /\ lk' = [lk EXCEPT !.readers = @ \ {p}, !.pc[p] = "idle"]

\* Logger::submit of an event that passes the threshold, on a started logger: the
\* shared lock around `!appenders_.empty()`, the push, cv_mtx_ around the notify;
\* without appenders the shared lock around the copy of root_logger_ (the parent's
\* submit, or the exception, follows with no lock of this logger held)
LkSubmit(p) ==
    \/ /\ lk.pc[p] = "idle"
       /\ lk' = [lk EXCEPT !.pc[p] = "sub_lk"]
    \/ /\ lk.pc[p] = "sub_lk" /\ CanLockShared(lk)
       /\ lk' = [lk EXCEPT !.readers = @ \cup {p}, !.pc[p] = "sub_has"]
    \/ /\ lk.pc[p] = "sub_has"
       /\ lk' = [lk EXCEPT !.readers = @ \ {p},
                           !.pc[p] = IF lk.appenders_ # <<>> THEN "sub_push"
                                     ELSE "sub_parent_lk"]
    \/ /\ lk.pc[p] = "sub_push"
       /\ lk' = IF lk.size < Capacity
                THEN [lk EXCEPT !.size = @ + 1, !.pc[p] = "sub_cv"]
                ELSE [lk EXCEPT !.pc[p] = "idle"]
    \/ /\ lk.pc[p] = "sub_cv" /\ lk.cv_mtx_ = Free
       /\ lk' = [lk EXCEPT !.cv_mtx_ = p, !.pc[p] = "sub_notify"]
    \/ /\ lk.pc[p] = "sub_notify"
       /\ lk' = [lk EXCEPT !.cv_mtx_ = Free, !.pc[p] = "idle",
                           !.pc["w_root"] = IF @ = "wk_waiting" THEN "wk_reacq" ELSE @]
    \/ /\ lk.pc[p] = "sub_parent_lk" /\ CanLockShared(lk)
       /\ lk' = [lk EXCEPT !.readers = @ \cup {p}, !.pc[p] = "sub_parent"]
    \/ /\ lk.pc[p] = "sub_parent"
       /\ lk' = [lk EXCEPT !.readers = @ \ {p}, !.pc[p] = "idle"]

\* the worker of Logger::start while the logger runs: cv_lk and cv_.wait, the
\* drain loop with the shared lock around the copy of appenders_, and append of
\* every sink of the copy, which locks the sink's app_mtx_; cv_lk is released at
\* the end of the loop body
LkWorker ==
    LET w == "w_root" IN
    \/ /\ lk.pc[w] \in {"wk_lockcv", "wk_reacq"} /\ lk.cv_mtx_ = Free
       /\ lk' = [lk EXCEPT !.cv_mtx_ = w, !.pc[w] = "wk_pred"]
    \/ /\ lk.pc[w] = "wk_pred"
       /\ lk' = IF lk.size > 0 THEN [lk EXCEPT !.pc[w] = "wk_pop"]
                ELSE [lk EXCEPT !.cv_mtx_ = Free, !.pc[w] = "wk_waiting"]
    \/ /\ lk.pc[w] = "wk_waiting"
       /\ lk' = [lk EXCEPT !.pc[w] = "wk_reacq"]
    \/ /\ lk.pc[w] = "wk_pop"
       /\ lk' = IF lk.size > 0 THEN [lk EXCEPT !.size = @ - 1, !.pc[w] = "wk_rd_lk"]
                ELSE [lk EXCEPT !.cv_mtx_ = Free, !.pc[w] = "wk_lockcv"]
    \/ /\ lk.pc[w] = "wk_rd_lk" /\ CanLockShared(lk)
       /\ lk' = [lk EXCEPT !.readers = @ \cup {w}, !.pc[w] = "wk_copy"]
    \/ /\ lk.pc[w] = "wk_copy"
       /\ lk' = [lk EXCEPT !.readers = @ \ {w}, !.copy = lk.appenders_, !.i = 1,
                           !.pc[w] = IF lk.appenders_ = <<>> THEN "wk_pop" ELSE "wk_app_lk"]
    \/ /\ lk.pc[w] = "wk_app_lk" /\ lk.app_mtx_[lk.copy[lk.i]] = Free
       /\ lk' = [lk EXCEPT !.app_mtx_[lk.copy[lk.i]] = w, !.pc[w] = "wk_in_app"]
    \/ /\ lk.pc[w] = "wk_in_app"
       /\ lk' = IF lk.i = Len(lk.copy)
                THEN [lk EXCEPT !.app_mtx_[lk.copy[lk.i]] = Free, !.pc[w] = "wk_pop",
                                !.copy = <<>>, !.i = 0]
                ELSE [lk EXCEPT !.app_mtx_[lk.copy[lk.i]] = Free, !.pc[w] = "wk_app_lk",
                                !.i = @ + 1]

\* Logger::flush: yield while the ring is not empty, then flush() of every sink,
\* which locks the sink's app_mtx_, under the exclusive lock
LkFlush(a) ==
    \/ /\ lk.pc[a] = "idle"
       /\ lk' = [lk EXCEPT !.pc[a] = "fl_wait"]
    \/ /\ lk.pc[a] = "fl_wait" /\ lk.size = 0
       /\ lk' = [lk EXCEPT !.pc[a] = "fl_lk"]
    \/ /\ lk.pc[a] = "fl_lk" /\ CanLockUnique(lk)
       /\ lk' = [lk EXCEPT !.writer = a, !.it[a] = 1, !.pc[a] = "fl_sinks"]
    \/ /\ lk.pc[a] = "fl_sinks" /\ lk.it[a] > Len(lk.appenders_)
       /\ lk' = [lk EXCEPT !.writer = Free, !.it[a] = 0, !.pc[a] = "idle"]
    \/ /\ lk.pc[a] = "fl_sinks" /\ lk.it[a] <= Len(lk.appenders_)
       /\ lk.app_mtx_[lk.appenders_[lk.it[a]]] = Free
       /\ lk' = [lk EXCEPT !.app_mtx_[lk.appenders_[lk.it[a]]] = a, !.pc[a] = "fl_in_sink"]
    \/ /\ lk.pc[a] = "fl_in_sink"
       /\ lk' = [lk EXCEPT !.app_mtx_[lk.appenders_[lk.it[a]]] = Free, !.it[a] = @ + 1,
                           !.pc[a] = "fl_sinks"]

\* Logger::setAppender, removeAppender and clearAppenders: the exclusive lock
\* around the change of appenders_
LkWrite(a, op, appender) ==
    \/ /\ lk.pc[a] = "idle"
       /\ lk' = [lk EXCEPT !.pc[a] = "wr_lk"]
    \/ /\ lk.pc[a] = "wr_lk" /\ CanLockUnique(lk)
       /\ lk' = [lk EXCEPT !.writer = a, !.pc[a] = "wr_in"]
    \/ /\ lk.pc[a] = "wr_in"
       /\ lk' = [lk EXCEPT !.writer = Free, !.pc[a] = "idle",
                           !.appenders_ =
                               IF op = "clearAppenders" THEN <<>>
                               ELSE IF op = "removeAppender"
                               THEN SelectSeq(@, LAMBDA app : app # appender)
                               ELSE IF appender \in Range(@) THEN @
                               ELSE Append(@, appender)]

\* BaseAppender::setFormatter of a sink: the sink's app_mtx_
LkSetFormatter(a, appender) ==
    \/ /\ lk.pc[a] = "idle"
       /\ lk' = [lk EXCEPT !.pc[a] = "fmt_lk", !.arg[a] = appender]
    \/ /\ lk.pc[a] = "fmt_lk" /\ lk.app_mtx_[lk.arg[a]] = Free
       /\ lk' = [lk EXCEPT !.app_mtx_[lk.arg[a]] = a, !.pc[a] = "fmt_in"]
    \/ /\ lk.pc[a] = "fmt_in"
       /\ lk' = [lk EXCEPT !.app_mtx_[lk.arg[a]] = Free, !.pc[a] = "idle", !.arg[a] = None]

LockNext ==
    /\ UNCHANGED <<ringVars, logVars, regVars, fileVars, pp, ws>>
    /\ \/ LkSubmit("p1")
       \/ LkWorker
       \/ \E a \in AppThreads : LkFlush(a)
       \/ \E a \in AppThreads, appender \in Sinks,
             op \in {"setAppender", "removeAppender", "clearAppenders"} :
               LkWrite(a, op, appender)
       \/ \E a \in AppThreads, appender \in Sinks : LkSetFormatter(a, appender)

Alive == ~crashed /\ UNCHANGED <<ringVars, regVars, fileVars, pp, ws, lk>>

\* one producer submits to root: the pipeline alone
FifoInit == LogInit /\ Conf({"p1"}, MaxEvents + 1, 0, {"root"}, {0}) /\ RingInit({}, {}) /\ RegInit /\ FileUnused /\ ParseUnused /\ WsUnused /\ LockUnused
FifoNext == Alive /\ PipelineStep
FifoSpec == FifoInit /\ [][FifoNext]_vars

\* C3: the events of one producer reach every sink in submission order: what a
\* sink has observed is a subsequence of e1..en, nothing swapped, nothing twice
C3_SinkSeesSubmissionOrder ==
    \A s \in Sinks :
        /\ \A i \in 1 .. Len(sinkLog[s]) :
              \/ sinkLog[s][i] \in accepted["root"]
              \/ \E p \in conf.prods : th[p].pc = "push" /\ th[p].ev = sinkLog[s][i]
        /\ \A i, j \in 1 .. Len(sinkLog[s]) : i < j => sinkLog[s][i] < sinkLog[s][j]

\* the sink has seen several events of a run in which the full ring dropped one
C3_Witness ==
    /\ Len(sinkLog["s1"]) >= 2
    /\ dropped >= 1
    /\ th["p1"].n = conf.K

\* two producers submit to root and the application calls flush()
FlushInit == LogInit /\ Conf({"p1", "p2"}, MaxEvents, 0, {"root"}, {0}) /\ RingInit({}, {}) /\ RegInit /\ FileUnused /\ ParseUnused /\ WsUnused /\ LockUnused
FlushNext == Alive /\ (PipelineStep \/ FlushStep \/ (AllSubmitted /\ OwnerFlush("root")))
FlushSpec == FlushInit /\ [][FlushNext]_vars

\* a producer thread calls push(v) with a fresh value
RingCallPush(t) ==
    /\ t \in rthreads.prod
    /\ rloc[t].pc = "idle"
    /\ nextVal <= MaxPush
    /\ rloc' = [rloc EXCEPT ![t] = PushCall(nextVal)]
    /\ nextVal' = nextVal + 1
    /\ UNCHANGED <<ring, rthreads, pushedOK, poppedSeq, lastOp>>

\* a thread inside push takes its next step
RingPushStep(t) ==
    /\ rloc[t].pc \in PushPcs
    /\ LET x == PushStep(ring, rloc[t]) IN
        /\ ring' = x.ring
        /\ rloc' = [rloc EXCEPT ![t] = x.loc]
    /\ UNCHANGED <<rthreads, nextVal, pushedOK, poppedSeq, lastOp>>

\* push returns to its caller
RingPushReturn(t) ==
    /\ t \in rthreads.prod
    /\ rloc[t].pc = "done"
    /\ pushedOK' = IF rloc[t].ret THEN pushedOK \cup {rloc[t].data} ELSE pushedOK
    /\ lastOp' = [op |-> "push", ret |-> rloc[t].ret, before |-> 0]
    /\ rloc' = [rloc EXCEPT ![t] = IdleLoc]
    /\ UNCHANGED <<ring, rthreads, nextVal, poppedSeq>>

\* the consumer thread calls pop
RingCallPop(t) ==
    /\ t \in rthreads.cons
    /\ rloc[t].pc = "idle"
    /\ Len(poppedSeq) < MaxPush + 1
    /\ rloc' = [rloc EXCEPT ![t] = PopCall]
    /\ UNCHANGED <<ring, rthreads, nextVal, pushedOK, poppedSeq, lastOp>>

\* a thread inside pop takes its next step
RingPopStep(t) ==
    /\ rloc[t].pc \in PopPcs
    /\ \E x \in PopSteps(ring, rloc[t]) :
        /\ ring' = x.ring
        /\ rloc' = [rloc EXCEPT ![t] = x.loc]
    /\ UNCHANGED <<rthreads, nextVal, pushedOK, poppedSeq, lastOp>>

\* pop returns to its caller
RingPopReturn(t) ==
    /\ t \in rthreads.cons
    /\ rloc[t].pc = "done"
    /\ poppedSeq' = IF rloc[t].ret THEN Append(poppedSeq, rloc[t].data) ELSE poppedSeq
    /\ lastOp' = [op |-> "pop", ret |-> rloc[t].ret, before |-> 0]
    /\ rloc' = [rloc EXCEPT ![t] = IdleLoc]
    /\ UNCHANGED <<ring, rthreads, nextVal, pushedOK>>

\* a thread that is not a producer calls getSize(): the worker (the consumer) in
\* the predicate of its wait, or the thread that called Logger::flush
RingCallGetSize(t) ==
    /\ t \notin rthreads.prod
    /\ rloc[t].pc = "idle"
    /\ rloc' = [rloc EXCEPT ![t] = [IdleLoc EXCEPT !.pc = "size_loadW"]]
    /\ UNCHANGED <<ring, rthreads, nextVal, pushedOK, poppedSeq, lastOp>>

\* `curr_wIdx = wIdx_.load(acquire)`
RingSizeLoadW(t) ==
    /\ rloc[t].pc = "size_loadW"
    /\ rloc' = [rloc EXCEPT ![t] = [@ EXCEPT !.w = ring.wIdx, !.pc = "size_loadR"]]
    /\ UNCHANGED <<ring, rthreads, nextVal, pushedOK, poppedSeq, lastOp>>

\* `curr_rIdx = rIdx_.load(acquire)` and the return of the difference; rest is
\* what getRestSize() makes of that value, `mask_ + 1 - getSize()`, before the
\* conversion to size_t
RingSizeLoadR(t) ==
    /\ rloc[t].pc = "size_loadR"
    /\ lastOp' = [op |-> "getSize", ret |-> TRUE, before |-> 0, by |-> t,
                  size |-> Used(rloc[t].w, ring.rIdx),
                  rest |-> capacity_ - Used(rloc[t].w, ring.rIdx)]
    /\ rloc' = [rloc EXCEPT ![t] = IdleLoc]
    /\ UNCHANGED <<ring, rthreads, nextVal, pushedOK, poppedSeq>>

RingSizeNext ==
    /\ UNCHANGED <<logVars, regVars, fileVars, pp, ws, lk>>
    /\ \E t \in RingThreads :
        \/ RingCallPush(t)
        \/ RingPushStep(t)
        \/ RingPushReturn(t)
        \/ RingCallPop(t)
        \/ RingPopStep(t)
        \/ RingPopReturn(t)
        \/ RingCallGetSize(t)
        \/ RingSizeLoadW(t)
        \/ RingSizeLoadR(t)

RingNext ==
    /\ UNCHANGED <<logVars, regVars, fileVars, pp, ws, lk>>
    /\ \E t \in RingThreads :
        \/ RingCallPush(t)
        \/ RingPushStep(t)
        \/ RingPushReturn(t)
        \/ RingCallPop(t)
        \/ RingPopStep(t)
        \/ RingPopReturn(t)

\* C4: when flush() returns, called after every producer has finished, the completed
\* append calls and the rejected pushes add up to all submits
C4_FlushAccountsForAll ==
    (th[Owner].pc = "fl_done" /\ th[Owner].after)
        => Len(sinkLog["s1"]) + dropped = Cardinality(conf.prods) * conf.K

\* the steps a producer takes inside submit() once it has called it
ProducerProgress(p) ==
    \/ SubmitCheck(p) \/ SubmitHasAppenders(p) \/ StartCas(p) \/ StartSpawn(p)
    \/ SubmitPushStep(p) \/ SubmitPushed(p) \/ SubmitNotify(p)

\* the steps of the worker thread of logger l, a spurious wake-up excepted
WorkerProgress(l) ==
    \/ WkTop(l) \/ WkLockCv(l) \/ WkPred(l) \/ WkBlock(l) \/ WkCheckExit(l)
    \/ WkPopStep(l) \/ WkPopped(l) \/ WkSnap(l) \/ WkAppend(l) \/ WkIterEnd(l)
    \/ WkRelease(l)
    \/ FlushLoadW(WorkerOf[l]) \/ FlushLoadR(WorkerOf[l]) \/ FlushSinks(WorkerOf[l])
    \/ StopCas(WorkerOf[l]) \/ StopNotify(WorkerOf[l]) \/ StopJoin(WorkerOf[l])
    \/ DtorMembers(WorkerOf[l])

\* the steps of the application thread inside flush() and ~Logger
OwnerProgress ==
    \/ FlushLoadW(Owner) \/ FlushLoadR(Owner) \/ FlushSinks(Owner) \/ OwnerReturn
    \/ StopCas(Owner) \/ StopNotify(Owner) \/ StopJoin(Owner) \/ DtorMembers(Owner)

\* every thread that can take a step is scheduled again
Scheduling ==
    /\ \A p \in Producers : WF_vars(Alive /\ ProducerProgress(p))
    /\ \A l \in Loggers : WF_vars(Alive /\ WorkerProgress(l))
    /\ WF_vars(Alive /\ OwnerProgress)

\* one producer submits to root and the application drops its reference
DtorInit == LogInit /\ Conf({"p1"}, MaxEvents, 0, {"root"}, {0}) /\ RingInit({}, {}) /\ RegInit /\ FileUnused /\ ParseUnused /\ WsUnused /\ LockUnused
DtorNext == Alive /\ (PipelineStep \/ FlushStep \/ DtorStep \/ OwnerRelease("root"))
DtorSpec == DtorInit /\ [][DtorNext]_vars
DtorFairSpec == DtorSpec /\ Scheduling

\* every event accepted into root's ring has been appended to the sink
AllDelivered ==
    \A e \in accepted["root"] : \E i \in 1 .. Len(sinkLog["s1"]) : sinkLog["s1"][i] = e

\* C5: while and after the logger is destroyed the destructor has not ended the
\* process by joining the worker from the worker thread, the worker has not exited
\* leaving events in the ring, and when the destructor has returned every event of
\* the ring has been appended to the sink and the worker has exited and been joined
C5_DestructorDrains ==
    life["root"] \in {"dying", "dead"} =>
        /\ ~crashed
        /\ th[WorkerOf["root"]].pc = "wk_exit" => getSize(rb["root"]) = 0
        /\ life["root"] = "dead" =>
              /\ AllDelivered
              /\ th[WorkerOf["root"]].pc \in {"none", "wk_exit"}
              /\ ~joinable["root"]

\* C6: once stop() has flipped running_ and notified, the worker leaves its loop
\* and the join in stop() returns
C6_StopJoinsWorker ==
    (\E t \in {Owner} \cup Workers :
        th[t].pc = "stop_join" /\ th[t].l = "root" /\ joinable["root"])
        ~> (th[WorkerOf["root"]].pc = "wk_exit" /\ ~joinable["root"])

\* the levels an event can have, and nullptr
EventKinds == {-1} \cup (0 .. NumLevels - 1)
\* calls of setThresholdLevel and setRootLogger the application makes
MaxAdmin == 2

\* one producer submits to root and to child while the application changes the
\* thresholds and gives child its root logger
DelegInit ==
    LogInit /\ Conf({"p1"}, MaxEvents, MaxAdmin, Loggers, EventKinds) /\ RingInit({}, {}) /\ RegInit /\ FileUnused /\ ParseUnused /\ WsUnused /\ LockUnused
DelegNext == Alive /\ (PipelineStep \/ DelegStep \/ ThresholdStep)
DelegSpec == DelegInit /\ [][DelegNext]_vars


\* C7: a submit that read a threshold above the event's level (or got nullptr) on
\* logger l returns at once: it starts no worker of l, pushes nothing into l's
\* ring, does not delegate from l; and no sink receives an event so filtered
C7_FilteredGoesNowhere ==
    /\ \A p \in Producers : \A l \in th[p].low :
          /\ l \notin th[p].startAt
          /\ l \notin th[p].pushAt
          /\ l \notin Range(th[p].delegFrom)
          /\ th[p].pc = "idle" /\ th[p].res = "filtered"
    /\ \A s \in Sinks : \A ev \in filtered \cup {Null} : Received(s, ev) = 0
C7_Witness ==
    /\ th["p1"].low = {"root"} /\ th["p1"].delegFrom = <<"child">> /\ th["p1"].ev # Null
    /\ threshold_level_["child"] = 0
    /\ Len(sinkLog["s1"]) >= 1

\* nothing is in flight: every submit has returned, every ring is empty and every
\* worker that exists is blocked in cv_.wait
Quiet ==
    /\ ProducersIdle
    /\ \A l \in Loggers :
          getSize(rb[l]) = 0 /\ th[WorkerOf[l]].pc \in {"none", "wk_waiting"}

\* producer p has returned from a submit on child that passed child's threshold test
ReturnedFromChild(p) ==
    /\ th[p].pc = "idle" /\ th[p].res # "none"
    /\ th[p].l0 = "child" /\ "child" \notin th[p].low

\* what C8 states of every such submit but the delivery to the parent's sinks
ForwardedOnce(p) ==
    /\ "child" \notin th[p].pushAt /\ "child" \notin th[p].startAt
    /\ th[p].delegFrom \in {<<>>, <<"child">>}
    /\ th[p].delegFrom = <<>> =>
          th[p].res = "invalid_parameter" /\ th[p].pushAt = {} /\ th[p].startAt = {}
    /\ th[p].delegFrom = <<"child">> => th[p].res \in {"filtered", "dropped", "pushed"}

\* C8 (as stated): a submit on child, which has no sink, is forwarded to the parent
\* exactly once, pushes nothing into child's ring, and the parent's sink has
\* received the event exactly once when nothing is in flight any more; without a
\* parent it fails with invalid_parameter and touches no ring
C8_DelegatedDeliveredOnce ==
    \A p \in conf.prods : ReturnedFromChild(p) =>
        /\ ForwardedOnce(p)
        /\ (Quiet /\ th[p].delegFrom = <<"child">>) =>
              \A s \in Range(appenders_["root"]) : Received(s, th[p].ev) = 1

\* C8 (amended): as above, but the parent's sink receives the event at most once,
\* only when the parent's own submit accepted it (not below the parent's threshold,
\* parent's ring not full), and then exactly once when nothing is in flight
C8_DelegatedOnceIfAccepted ==
    \A p \in conf.prods : ReturnedFromChild(p) =>
        /\ ForwardedOnce(p)
        /\ \A s \in Range(appenders_["root"]) :
              /\ Received(s, th[p].ev) <= 1
              /\ th[p].res # "pushed" => Received(s, th[p].ev) = 0
              /\ (Quiet /\ th[p].res = "pushed") => Received(s, th[p].ev) = 1
C8_Witness ==
    /\ Quiet /\ ReturnedFromChild("p1")
    /\ th["p1"].delegFrom = <<"child">> /\ th["p1"].res = "pushed"
    /\ Received("s1", th["p1"].ev) = 1
    /\ th["p1"].n = 2 /\ Len(sinkLog["s1"]) = 1

\* two producers submit one event each to root while the application calls init()
StartInit == LogInit /\ Conf({"p1", "p2"}, 1, 0, {"root"}, {0}) /\ RingInit({}, {}) /\ RegInit /\ FileUnused /\ ParseUnused /\ WsUnused /\ LockUnused
StartNext == Alive /\ (PipelineStep \/ OwnerInit("root"))
StartSpec == StartInit /\ [][StartNext]_vars

\* the callers of start() on logger l that won the compare-exchange and have not
\* created the thread yet
Starters(l) == {t \in LogThreads : th[t].pc = "start_spawn" /\ th[t].l = l}

\* C9: for every logger at most one caller of start() wins the compare-exchange on
\* running_, only that caller creates the worker thread, and so at most one worker
\* thread is ever created, whatever the interleaving of submit() calls and init()
C9_AtMostOneWorker ==
    \A l \in Loggers :
        /\ created[l] + Cardinality(Starters(l)) <= 1
        /\ running_[l] <=> created[l] + Cardinality(Starters(l)) = 1
        /\ joinable[l] <=> created[l] = 1
C9_Witness ==
    /\ created["root"] = 1 /\ start_flag_["root"] /\ th[Owner].pc = "idle"
    /\ \A p \in {"p1", "p2"} : th[p].startAt = {"root"} /\ th[p].res # "none"

\* threads call getLogger concurrently on the one LoggerManager
RegSpecInit == RegInit /\ LogUnused /\ RingInit({}, {}) /\ FileUnused /\ ParseUnused /\ WsUnused /\ LockUnused
RegSpec == RegSpecInit /\ [][RegNext]_vars

\* C10: getLogger never returns null; two calls return the same instance exactly
\* when their names are equal, also when they race to create the name; the map
\* holds one logger per name and, until it is cleared, every returned instance is
\* the mapped one; a name other than "root" never yields the root logger
C10_SameInstanceIffSameName ==
    /\ \A x, y \in got : x[2] # Null /\ (x[2] = y[2] <=> x[1] = y[1])
    /\ \A x, y \in mgr.loggers_map_ : x[1] = y[1] => x = y
    /\ \A x \in got : x[1] # "root" => x[2] # mgr.root_logger_
    /\ \A x \in got : x[1] = "root" => x[2] = mgr.root_logger_
    /\ ~mgr.destroyed => got \subseteq mgr.loggers_map_
C10_Witness ==
    /\ gth["g1"].name = "net" /\ gth["g2"].name = "net"
    /\ gth["g1"].logger # Null /\ gth["g2"].logger # Null
    /\ gth["g1"].pc = "idle" /\ gth["g2"].pc = "idle"
    /\ gth["g1"].ret = gth["g2"].ret
    /\ \E i \in 1 .. Len(heap) : ~heap[i].alive
    /\ \E x \in got : x[1] = "db"

\* threads call getLogger and setRootLogger on the loggers it returned
ParentSpec == RegSpecInit /\ [][ParentNext]_vars

\* C11: a setRootLogger call that returned threw invalid_parameter exactly when its
\* argument was null or a parent was already installed, and then left the parent
\* as it was; otherwise it installed its argument; no logger ever had a parent
\* installed more than once, whatever threads called
C11_SetRootLoggerOneShot ==
    /\ \A t \in GThreads : gth[t].res # "none" =>
          /\ gth[t].res = "invalid_parameter" <=>
                (gth[t].root_logger = Null \/ gth[t].was # Null)
          /\ gth[t].res = "invalid_parameter" => gth[t].now = gth[t].was
          /\ gth[t].res = "ok" => gth[t].now = gth[t].root_logger
    /\ \A i \in 1 .. Len(heap) : heap[i].sets <= 1
C11_Witness ==
    /\ gth["g1"].res = "ok" /\ gth["g2"].res = "invalid_parameter"
    /\ gth["g1"].self = gth["g2"].self
    /\ gth["g2"].root_logger # Null /\ gth["g2"].root_logger # gth["g1"].root_logger
    /\ gth["g2"].was = gth["g1"].root_logger

\* the logger reached from logger i after k delegations of submit, Null when the
\* chain of root_logger_ ends before
RECURSIVE ParentAt(_, _)
ParentAt(i, k) ==
    IF k = 0 \/ i = Null THEN i ELSE ParentAt(heap[i].root_logger_, k - 1)

\* C12: no logger is its own parent and no chain of parents leads back to the
\* logger it started from, so the delegation of submit comes to an end
C12_ParentGraphAcyclic ==
    \A i \in 1 .. Len(heap) :
        /\ heap[i].root_logger_ # i
        /\ \A k \in 1 .. Len(heap) : ParentAt(i, k) # i

\* one producer submits to root while the application registers a second sink;
\* an append may throw
SinkInit == LogInit /\ Conf({"p1"}, MaxEvents, MaxAdmin, {"root"}, {0}) /\ RingInit({}, {}) /\ RegInit /\ FileUnused /\ ParseUnused /\ WsUnused /\ LockUnused
SinkNext ==
    Alive /\ \/ PipelineStep
             \/ \E appender \in Sinks \cup {None} : SetAppender("root", appender)
             \/ \E l \in Loggers : WkAppendThrows(l)
SinkSpec == SinkInit /\ [][SinkNext]_vars

\* position of an appender in a copy of the appender list
IndexIn(snap, app) == CHOOSE i \in 1 .. Len(snap) : snap[i] = app

\* the k-th append call was the last one the worker made for its event
EndsEvent(k) ==
    \/ appendLog[k].threw
    \/ IndexIn(appendLog[k].snap, appendLog[k].sink) = Len(appendLog[k].snap)

\* C13: the worker calls append of one event on the sinks in registration order,
\* one after the other, and makes all the append calls of an event before the
\* first append call of the next event
C13_SinksInRegistrationOrder ==
    /\ \A k \in 1 .. Len(appendLog) :
          LET a == appendLog[k] IN
          /\ \E n \in 1 .. Len(appenders_["root"]) : a.snap = SubSeq(appenders_["root"], 1, n)
          /\ a.sink \in Range(a.snap)
          /\ k = 1 => a.sink = a.snap[1]
          /\ k > 1 =>
                LET b == appendLog[k - 1] IN
                IF EndsEvent(k - 1)
                THEN a.sink = a.snap[1] /\ \A j \in 1 .. k - 1 : appendLog[j].ev # a.ev
                ELSE /\ a.ev = b.ev /\ a.snap = b.snap
                     /\ IndexIn(a.snap, a.sink) = IndexIn(b.snap, b.sink) + 1
C13_Witness ==
    /\ Len(appendLog) = 3
    /\ appendLog[1].snap = <<"s1">>
    /\ appendLog[2].snap = <<"s1", "s2">> /\ appendLog[2].sink = "s1"
    /\ appendLog[3].sink = "s2" /\ appendLog[3].ev = appendLog[2].ev
    /\ ~appendLog[2].threw /\ ~appendLog[3].threw

\* C14: an append that throws does not end the worker thread, and when nothing is
\* in flight every event pushed into the ring, before or after the throw, has been
\* popped and offered to the first sink, and is in every sink of its copy of the
\* list unless its own append threw
C14_SinkFailureIsolated ==
    /\ ~crashed
    /\ th[WorkerOf["root"]].pc # "wk_exit"
    /\ Quiet =>
          \A e \in accepted["root"] :
              \E k \in 1 .. Len(appendLog) :
                  /\ appendLog[k].ev = e /\ appendLog[k].sink = appendLog[k].snap[1]
                  /\ (\A j \in 1 .. Len(appendLog) : appendLog[j].ev = e => ~appendLog[j].threw)
                        => \A app \in Range(appendLog[k].snap) : Received(app, e) = 1
C14_Witness ==
    /\ Quiet /\ Len(appendLog) = 2 /\ Cardinality(accepted["root"]) = 2
    /\ appendLog[1].threw /\ ~appendLog[2].threw
    /\ appendLog[2].ev # appendLog[1].ev
    /\ Received("s1", appendLog[2].ev) = 1

\* one producer submits to root while the application calls flush()
Flush1Init == LogInit /\ Conf({"p1"}, MaxEvents, 0, {"root"}, {0}) /\ RingInit({}, {}) /\ RegInit /\ FileUnused /\ ParseUnused /\ WsUnused /\ LockUnused
Flush1Next == Alive /\ (PipelineStep \/ FlushStep \/ OwnerFlush("root"))
Flush1Spec == Flush1Init /\ [][Flush1Next]_vars

\* C15: when flush() has returned, every event that was in the ring when flush()
\* was called had been appended to every sink of the logger before the sinks
\* were flushed
C15_FlushAfterAppends ==
    th[Owner].pc = "fl_done" => th[Owner].missing = {}

\* elements the ring holds when no call is in progress
Stored == Cardinality(pushedOK) - Len(poppedSeq)

\* how many calls the single thread of RingSeqSpec makes
MaxSeqOps == 3 * Capacity + 2

\* the single thread calls push(v) and the call returns
SeqPush ==
    /\ nextVal <= MaxSeqOps
    /\ LET x == PushRun(ring, PushCall(nextVal)) IN
        /\ ring' = x.ring
        /\ pushedOK' = IF x.loc.ret THEN pushedOK \cup {nextVal} ELSE pushedOK
        /\ lastOp' = [op |-> "push", ret |-> x.loc.ret, before |-> Stored]
    /\ nextVal' = nextVal + 1
    /\ UNCHANGED <<rloc, rthreads, poppedSeq>>

\* the single thread calls pop(data) and the call returns
SeqPop ==
    /\ nextVal <= MaxSeqOps
    /\ \E x \in PopRun(ring, PopCall) :
        /\ ring' = x.ring
        /\ poppedSeq' = IF x.loc.ret THEN Append(poppedSeq, x.loc.data) ELSE poppedSeq
        /\ lastOp' = [op |-> "pop", ret |-> x.loc.ret, before |-> Stored]
    /\ nextVal' = nextVal + 1
    /\ UNCHANGED <<rloc, rthreads, pushedOK>>

\* one thread uses the ring
RingSeqInit == RingInit({"p1"}, {"p1"}) /\ LogUnused /\ RegInit /\ FileUnused /\ ParseUnused /\ WsUnused /\ LockUnused
RingSeqNext == UNCHANGED <<logVars, regVars, fileVars, pp, ws, lk>> /\ (SeqPush \/ SeqPop)
RingSeqSpec == RingSeqInit /\ [][RingSeqNext]_vars

\* C2: used by one thread, push returns true if and only if fewer than Capacity
\* elements are stored: from empty, Capacity pushes succeed, the next one fails, and
\* after one pop exactly one more push succeeds
C2_PushTrueIffNotFull ==
    lastOp.op = "push" => (lastOp.ret <=> lastOp.before < Capacity)

\* a push is rejected on a full ring whose write index has wrapped past the mirror
C2_Witness ==
    /\ lastOp.op = "push" /\ ~lastOp.ret /\ lastOp.before = Capacity
    /\ ring.wIdx < ring.rIdx
    /\ Len(poppedSeq) >= Capacity

\* M = 2 producers and one consumer on one ring
RingMPInit == RingInit({"p1", "p2"}, {"c1"}) /\ LogUnused /\ RegInit /\ FileUnused /\ ParseUnused /\ WsUnused /\ LockUnused
RingMPSpec == RingMPInit /\ [][RingNext]_vars

\* C1: with two producers and one consumer every value a successful pop returns
\* was passed to a push that returned true or is still being pushed (no spurious
\* value), and no value is returned by pop twice (no duplicate)
C1_NoSpuriousNoDuplicate ==
    /\ \A i \in 1 .. Len(poppedSeq) :
          \/ poppedSeq[i] \in pushedOK
          \/ \E t \in rthreads.prod : rloc[t].pc \in {"push_storeW", "done"} /\ rloc[t].data = poppedSeq[i]
    /\ \A i, j \in 1 .. Len(poppedSeq) : i # j => poppedSeq[i] # poppedSeq[j]

\* C16: with several producers and one consumer the number of stored elements the
\* indices give (getSize) stays between 0 and the capacity
C16_OccupancyBounded ==
    getSize(ring) >= 0 /\ getSize(ring) <= capacity_

\* a file appender on a path of a fresh or a used directory
FileSpecInit ==
    FileInit /\ LogUnused /\ RingInit({}, {}) /\ RegInit /\ ParseUnused /\ WsUnused /\ LockUnused
FileSpec == FileSpecInit /\ [][FileNext]_vars

\* C17: after every append, file_size_ is the number of bytes in the active file
\* plus the number of bytes held in buffer_
C17_FileSizeCountsBuffered ==
    fghost.op = "append" =>
        fapp.file_size_ = Bytes(disk[0].data) + Bytes(fapp.buffer_)

\* Scenario B: FileSink(path, truncate = true, buffer = 4096),
\* setMaxFileSize(1024), setMaxBackupCount(2), 200 events of 20 bytes, flush
ScenarioBInit ==
    /\ \E old \in OldFiles : FileStart(old, TRUE, 4096, 1024, 2)
    /\ LogUnused /\ RingInit({}, {}) /\ RegInit /\ ParseUnused /\ WsUnused /\ LockUnused
ScenarioBAppend == \E grow \in BOOLEAN : AppendCall(20, grow, 200)
ScenarioBFlush == fghost.n = 200 /\ FileFlush
ScenarioBNext ==
    /\ UNCHANGED <<ringVars, logVars, regVars, pp, ws, lk>>
    /\ (ScenarioBAppend \/ ScenarioBFlush)
ScenarioBSpec == ScenarioBInit /\ [][ScenarioBNext]_vars

\* C18: after the 200 appends and the flush of Scenario B the active file exists
\* and is smaller than 1024 bytes, _backup1 and _backup2 exist, _backup3 does not
C18_ScenarioBFiles ==
    (fghost.n = 200 /\ fghost.op = "flush") =>
        /\ disk[0].exists /\ Bytes(disk[0].data) < 1024
        /\ disk[1].exists /\ disk[2].exists
        /\ ~disk[3].exists

\* C19: with max_backup_num_ = N > 0, after k rotations the backups on disk are
\* exactly _backup1 .. _backup(min(k, N)), _backup_i holds what the active file
\* held at the (k - i + 1)-th rotation, and the active file exists
C19_BackupsAreLastRotations ==
    (fapp.max_backup_num_ > 0 /\ fghost.nums = {fapp.max_backup_num_}) =>
        LET N == fapp.max_backup_num_
            k == Len(fghost.rotated)
        IN /\ disk[0].exists
           /\ \A i \in 1 .. MaxBackupNum + 1 :
                /\ disk[i].exists <=> (i <= k /\ i <= N)
                /\ disk[i].exists => disk[i].data = fghost.rotated[k - i + 1]

\* N + 2 rotations with N = MaxBackupNum: the two oldest contents are gone
C19_Witness ==
    /\ fapp.max_backup_num_ = MaxBackupNum
    /\ fghost.nums = {MaxBackupNum}
    /\ Len(fghost.rotated) = MaxBackupNum + 2
    /\ fghost.rotations = 1
    /\ \A i \in 1 .. MaxBackupNum : disk[i].exists
    /\ \A i \in 1 .. MaxBackupNum : disk[i].data # fghost.rotated[1]
    /\ \A i \in 1 .. MaxBackupNum : disk[i].data # fghost.rotated[2]

\* C20: with max_backup_num_ = 0 no backup file ever exists, and right after a
\* rotation the active file is empty and file_size_ is 0
C20_NoBackupsKept ==
    fghost.nums = {0} =>
        /\ \A i \in 1 .. MaxBackupNum + 1 : ~disk[i].exists
        /\ fghost.rotations > 0 =>
            /\ disk[0].exists /\ disk[0].data = <<>>
            /\ fapp.file_size_ = 0

\* a rotation without backups: what the active file held is on no file
C20_Witness ==
    /\ fghost.nums = {0}
    /\ fghost.rotations > 0
    /\ Len(fghost.rotated) >= 2
    /\ fghost.rotated[1] # <<>>
    /\ disk[0].data = <<>>

\* C21: a flush() that follows a flush() with no append in between changes
\* neither the files, nor buffer_, nor file_size_, nor the number of rotations
C21_FlushIdempotent ==
    [][(fghost.flushes >= 1 /\ fghost'.flushes = 2 /\ fghost'.op = "flush")
        => (fapp' = fapp /\ disk' = disk /\ fghost'.rotated = fghost.rotated)]_vars

\* a second flush after the first one wrote buffered messages and rotated
C21_Witness ==
    /\ fghost.flushes = 2
    /\ fghost.op = "flush"
    /\ Len(fghost.rotated) >= 1
    /\ \E i \in 0 .. MaxBackupNum : disk[i].exists /\ disk[i].data # <<>>

\* C22: once a thread is past getInstance(), also when two threads raced on the
\* first access, LoggerManager::init has run exactly once; the root logger
\* exists, is mapped under "root" (until the map is cleared at exit), has the
\* console sink as its only sink, threshold Debug and a running worker; every
\* getLogger("root") returned this instance
C22_RootInitializedOnce ==
    (\E t \in GThreads : gth[t].n > 0 /\ gth[t].pc # "instance") =>
        /\ mgr.inits = 1
        /\ mgr.root_logger_ \in 1 .. Len(heap)
        /\ LET root == heap[mgr.root_logger_] IN
            /\ root.alive /\ root.name_ = "root"
            /\ root.appenders_ = <<"console">>
            /\ root.threshold_level_ = "DEBUG"
            /\ root.running_
        /\ ~mgr.destroyed => <<"root", mgr.root_logger_>> \in mgr.loggers_map_
        /\ \A x \in got : x[1] = "root" => x[2] = mgr.root_logger_
        /\ \A i \in 1 .. Len(heap) : heap[i].name_ = "root" => i = mgr.root_logger_

\* the first access of each of two threads asked for "root", in any interleaving
\* of their steps, and both got the same logger
C22_Witness ==
    /\ gth["g1"].n = 1 /\ gth["g2"].n = 1
    /\ gth["g1"].name = "root" /\ gth["g2"].name = "root"
    /\ gth["g1"].pc = "idle" /\ gth["g2"].pc = "idle"
    /\ gth["g1"].ret = gth["g2"].ret
    /\ <<"root", gth["g1"].ret>> \in got

\* a ComponentFactory made from a pattern string
ParseSpecInit ==
    ParseInit /\ LogUnused /\ RingInit({}, {}) /\ RegInit /\ FileUnused /\ WsUnused /\ LockUnused
ParseSpec == ParseSpecInit /\ [][ParseNext]_vars

\* the directive letters of the pattern dialect and the directive of each
DirectiveLetters == {"t", "p", "i", "f", "n", "l", "m"}
DirectiveOf(X) ==
    CASE X = "t" -> [key |-> "timestamp", format |-> <<>>]
      [] X = "p" -> [key |-> "level", format |-> <<>>]
      [] X = "i" -> [key |-> "tid", format |-> <<>>]
      [] X = "f" -> [key |-> "loc", format |-> <<"{file_name}">>]
      [] X = "n" -> [key |-> "loc", format |-> <<"{function_name}">>]
      [] X = "l" -> [key |-> "loc", format |-> <<"{line}">>]
      [] X = "m" -> [key |-> "msg", format |-> <<>>]
\* the Text directive of a literal run, none for the empty run
TextOf(T) == IF T = <<>> THEN <<>> ELSE <<[key |-> "text", format |-> T]>>
NoPercent(T) == \A k \in 1 .. Len(T) : T[k] # "%"

\* C23: for a pattern `%X` followed by a non-empty text T without `%`, X one of
\* t p i f n l m, the directives are the directive of X, then Text(T), also when
\* T starts with letters
C23_OneLetterDirective ==
    LET pattern == pp.pattern
        T == SubSeq(pattern, 3, Len(pattern))
    IN (/\ pp.pc # "new"
        /\ Len(pattern) >= 3
        /\ pattern[1] = "%" /\ pattern[2] \in DirectiveLetters
        /\ NoPercent(T))
       => pp.registered_components_ = <<DirectiveOf(pattern[2])>> \o TextOf(T)

\* the tokens %X, X a directive letter, each followed by the end of the pattern,
\* by another `%`, or by a literal run that does not start with a letter
TokensAndRuns(pattern) ==
    \A k \in 1 .. Len(pattern) :
        pattern[k] = "%" =>
            /\ k < Len(pattern) /\ pattern[k + 1] \in DirectiveLetters
            /\ k + 2 <= Len(pattern) => pattern[k + 2] \notin Letters

\* the end of the literal run that starts at position k
RECURSIVE RunEnd(_, _)
RunEnd(pattern, k) ==
    IF k > Len(pattern) \/ pattern[k] = "%" THEN k ELSE RunEnd(pattern, k + 1)

\* the tokens' directives and the runs' Text directives, left to right
RECURSIVE Directives(_, _)
Directives(pattern, k) ==
    IF k > Len(pattern) THEN <<>>
    ELSE IF pattern[k] = "%"
         THEN <<DirectiveOf(pattern[k + 1])>> \o Directives(pattern, k + 2)
         ELSE TextOf(SubSeq(pattern, k, RunEnd(pattern, k) - 1))
              \o Directives(pattern, RunEnd(pattern, k))

C28_UnknownPercentDropped ==
    \A k \in 1 .. Len(pp.pattern) :
        LET pattern == pp.pattern
            A == SubSeq(pattern, 1, k - 1)
            dropped1 == k = Len(pattern) \/ pattern[k + 1] \notin Letters
            B1 == SubSeq(pattern, k + 1, Len(pattern))
            dropped2 == /\ k < Len(pattern)
                        /\ pattern[k + 1] \in Letters \ DirectiveLetters
                        /\ k + 2 <= Len(pattern) => pattern[k + 2] \notin Letters
            B2 == SubSeq(pattern, k + 2, Len(pattern))
        IN (pp.pc # "new" /\ pattern[k] = "%" /\ NoPercent(A))
           => /\ (dropped1 /\ NoPercent(B1))
                    => pp.registered_components_ = TextOf(A) \o TextOf(B1)
              /\ (dropped2 /\ NoPercent(B2))
                    => pp.registered_components_ = TextOf(A) \o TextOf(B2)

\* C25: the worker holds no strong reference to its logger while it is blocked
\* in cv_.wait, and the logger's destructor never runs on the worker thread
C25_WorkerHoldsOnlyWhileDraining ==
    LET w == WorkerOf["root"] IN
    /\ th[w].pc = "wk_block" => ~th[w].holds
    /\ th[w].ctx # "dtor"

\* C26: no producer waits for cv_mtx_ in submit() (to notify) while the worker
\* holds cv_mtx_ inside a sink's append
C26_ProducerNeverWaitsForAppend ==
    \A p \in Producers, l \in Loggers :
        ~(/\ th[p].pc = "sub_notify" /\ th[p].l = l
          /\ cv_mtx_[l] = WorkerOf[l]
          /\ th[WorkerOf[l]].pc = "wk_append")

WsSpecInit ==
    WsInit /\ LogUnused /\ RingInit({}, {}) /\ RegInit /\ FileUnused /\ ParseUnused /\ LockUnused
WsSpec == WsSpecInit /\ [][WsNext]_vars

\* connected_ is true exactly when the most recent of Open, Close, Error was Open
ConnectedIffOpen == ws.connected_ <=> ws.last = "Open"

\* C29 as stated: connected_ follows the most recent connection event, and every
\* frame is sent in a state where connected_ is true and the event's level is at
\* or above the threshold
C29_SendsOnlyWhileConnected ==
    /\ ConnectedIffOpen
    /\ \A k \in 1 .. Len(ws.sent) :
          ws.sent[k].connected_ /\ ws.sent[k].level >= ws.sent[k].threshold_level_

\* C29 as amended: every frame belongs to an append that read the threshold at or
\* below the event's level and then read connected_ as true, and an append
\* that read otherwise sent nothing
C29_SendsOnlyIfCheckedConnected ==
    /\ ConnectedIffOpen
    /\ \A k \in 1 .. Len(ws.sent) :
          ws.sent[k].conn /\ ws.sent[k].level >= ws.sent[k].curr_level
    /\ ws.t.pc = "send" => (ws.t.conn /\ ws.t.level >= ws.t.curr_level)
    /\ Len(ws.sent) + ws.skipped + (IF ws.t.pc = "idle" THEN 0 ELSE 1) = ws.appends

\* one append was skipped while disconnected, one sent a frame after Open
C29_Witness ==
    /\ ws.skipped = 1 /\ Len(ws.sent) = 1
    /\ ws.last = "Open" /\ ws.connected_
    /\ ws.sent[1].connected_

\* C30: no slot is overwritten before it has been consumed: a push never
\* constructs an element in a cell that still holds an element no pop has moved out
C30_NoOverwriteBeforeConsume ==
    [][\A i \in 0 .. capacity_ - 1 :
          (ring.buffer[i].live /\ ring'.buffer[i].live)
              => ring'.buffer[i].val = ring.buffer[i].val]_vars

\* one producer submits to child, which has the sink s2 and the root logger root,
\* while the application adds sinks to child's list, removes them and clears it
DrainInit ==
    /\ LogStart([root |-> <<"s1">>, child |-> <<"s2">>], [root |-> None, child |-> "root"])
    /\ Conf({"p1"}, MaxEvents, MaxAdmin, {"child"}, {0})
    /\ RingInit({}, {}) /\ RegInit /\ FileUnused /\ ParseUnused /\ WsUnused /\ LockUnused
DrainNext ==
    Alive /\ \/ PipelineStep
             \/ \E p \in Producers : SubmitParent(p)
             \/ \E appender \in Sinks \cup {None} : SetAppender("child", appender)
             \/ \E appender \in Sinks \cup {None} : RemoveAppender("child", appender)
             \/ ClearAppenders("child")
DrainSpec == DrainInit /\ [][DrainNext]_vars

\* C31: the worker's copy of the sink list, taken after the pop, is the list of
\* that moment, whatever the list was when the event was submitted; when the worker
\* has made its last append call for the event, the sinks of the copy have received
\* the event once and no other sink has received it, whatever has been added or
\* removed since; and when the list is empty at the copy the event is discarded:
\* no sink receives it and nothing is pushed into a ring, the parent's included
C31_DeliveredToSinksAtDrain ==
    [][\A l \in Loggers :
          LET w == WorkerOf[l]
              me == th[w]
          IN /\ (me.pc = "wk_snap" /\ th'[w].pc # "wk_snap") =>
                   IF appenders_[l] = <<>>
                   THEN /\ th'[w].pc = "pop"
                        /\ sinkLog' = sinkLog /\ appendLog' = appendLog
                        /\ rb' = rb /\ accepted' = accepted
                        /\ \A s \in Sinks : Received(s, me.ev) = 0
                        /\ \A q \in Loggers \ {l} : me.ev \notin accepted[q]
                   ELSE th'[w].pc = "wk_append" /\ th'[w].snap = appenders_[l]
             /\ (me.pc = "wk_append" /\ th'[w].pc = "pop") =>
                   \A s \in Sinks :
                       Cardinality({i \in 1 .. Len(sinkLog'[s]) : sinkLog'[s][i] = me.ev})
                           = IF s \in Range(me.snap) THEN 1 ELSE 0
      ]_vars

\* the first event was submitted and delivered to s2 and to s1, which child got
\* meanwhile; the second event was submitted when the list was <<s2, s1>>, accepted
\* into child's ring and discarded by the worker because the list had been cleared
C31_Witness ==
    /\ Quiet /\ th["p1"].n = 2 /\ th["p1"].res = "pushed"
    /\ th["p1"].snap = <<"s2", "s1">> /\ appenders_["child"] = <<>>
    /\ th["p1"].ev \in accepted["child"] /\ accepted["root"] = {}
    /\ \A s \in Sinks : Received(s, th["p1"].ev) = 0
    /\ Len(appendLog) = 2
    /\ appendLog[1].snap = <<"s2", "s1">> /\ appendLog[2].sink = "s1"
    /\ appendLog[2].ev = appendLog[1].ev /\ Received("s1", appendLog[1].ev) = 1

\* C32: an event that child's submit forwarded to root had passed child's threshold
\* test; it is pushed into root's ring, and so reaches a sink of root, only when it
\* also passed root's threshold test; when it was below the threshold root's submit
\* read, that submit returns without an exception, starts nothing and pushes nothing
C32_DelegatedFilteredTwice ==
    \A p \in conf.prods :
        th[p].delegFrom = <<"child">> =>
            /\ "child" \notin th[p].low
            /\ th[p].ev # Null
            /\ \A s \in Sinks : Received(s, th[p].ev) >= 1 => "root" \notin th[p].low
            /\ "root" \in th[p].low =>
                  /\ th[p].pc = "idle" /\ th[p].res = "filtered"
                  /\ "root" \notin th[p].pushAt /\ "root" \notin th[p].startAt
                  /\ th[p].ev \notin accepted["root"]

\* an event of level 0 passed child's threshold 0 and was dropped by root's submit
\* under root's threshold 1, after an event of level 1 had gone the same way to
\* root's sink
C32_Witness ==
    /\ th["p1"].pc = "idle" /\ th["p1"].n = 2 /\ th["p1"].l0 = "child"
    /\ th["p1"].delegFrom = <<"child">> /\ th["p1"].low = {"root"}
    /\ getLogLevel(th["p1"].ev) = 0 /\ th["p1"].res = "filtered"
    /\ threshold_level_ = [root |-> 1, child |-> 0]
    /\ Len(sinkLog["s1"]) = 1 /\ getLogLevel(sinkLog["s1"][1]) = 1
    /\ accepted["child"] = {}

\* a buffer_capacity argument smaller than the longer message
SmallBuffer == 16

\* a file appender with the buffer capacity SmallBuffer on a new log file
BufferInit ==
    /\ \E max_size \in MaxFileSizes, max_num \in 0 .. MaxBackupNum :
          FileStart(NoFile, TRUE, SmallBuffer, max_size, max_num)
    /\ LogUnused /\ RingInit({}, {}) /\ RegInit /\ ParseUnused /\ WsUnused /\ LockUnused
BufferSpec == BufferInit /\ [][FileNext]_vars

\* C33: with the buffer capacity B = SmallBuffer given to the constructor, the
\* buffer holds at most B bytes after every append
C33_BufferWithinCapacity ==
    fghost.op = "append" => Bytes(fapp.buffer_) <= SmallBuffer

\* the records of the files createBackupPath(i) .. createBackupPath(1), file_path_
RECURSIVE Concatenation(_, _)
Concatenation(d, i) ==
    IF i = 0 THEN d[0].data ELSE d[i].data \o Concatenation(d, i - 1)

\* the ids of the records of this run in a sequence of records (a record left in
\* the log file by an earlier run has the id 0)
RecordIds(data) ==
    LET new == SelectSeq(data, LAMBDA rec : rec.id > 0)
    IN [j \in 1 .. Len(new) |-> new[j].id]

ListSinks == {"s1", "s2", "s3"}

\* the application calls setAppender, removeAppender and clearAppenders of root,
\* with the sinks, with a sink twice and with nullptr
ListInit ==
    /\ LogInit /\ Conf({}, 0, MaxAdmin + 2, {"root"}, {})
    /\ RingInit({}, {}) /\ RegInit /\ FileUnused /\ ParseUnused /\ WsUnused /\ LockUnused
ListNext ==
    Alive /\ \/ \E appender \in ListSinks \cup {None} : SetAppender("root", appender)
             \/ \E appender \in ListSinks \cup {None} : RemoveAppender("root", appender)
             \/ ClearAppenders("root")
ListSpec == ListInit /\ [][ListNext]_vars

\* no sink is in the list twice
NoDuplicate(list) == \A i, j \in 1 .. Len(list) : i # j => list[i] # list[j]

\* C35: after every call on root's sink list no sink is in the list twice;
\* setAppender with nullptr or with a sink of the list throws invalid_parameter and
\* leaves the list as it was, with any other sink it puts the sink at the end;
\* removeAppender with a sink that is not in the list throws invalid_parameter and
\* leaves the list as it was, with a sink of the list it takes out that sink alone
\* and keeps the others in their order
C35_SinkListHasNoDuplicates ==
    [][LET before == appenders_["root"]
           after == appenders_'["root"]
           op == th'[Owner].call[1]
           appender == th'[Owner].call[2]
           res == th'[Owner].res
       IN th'[Owner].n # th[Owner].n =>
            /\ NoDuplicate(after)
            /\ op = "setAppender" =>
                  IF appender = None \/ appender \in Range(before)
                  THEN res = "invalid_parameter" /\ after = before
                  ELSE res = "ok" /\ after = Append(before, appender)
            /\ (op = "removeAppender" /\ appender # None) =>
                  IF appender \notin Range(before)
                  THEN res = "invalid_parameter" /\ after = before
                  ELSE /\ res = "ok"
                       /\ Len(after) = Len(before) - 1
                       /\ after = SelectSeq(before, LAMBDA app : app # appender)
      ]_vars

\* the second of three sinks has been removed
C35_Witness ==
    /\ th[Owner].call = <<"removeAppender", "s2">> /\ th[Owner].res = "ok"
    /\ th[Owner].n = 3
    /\ appenders_["root"] = <<"s1", "s3">>

\* C36: when the append of event e on sink s_i of the worker's copy has thrown, the
\* sinks before s_i in the copy have received e once, s_i and the sinks after it
\* have not received e, then or later, and the next append call the worker makes
\* is for another event on the first sink of that event's copy
C36_ThrowEndsDeliveryOfEvent ==
    \A k \in 1 .. Len(appendLog) :
        appendLog[k].threw =>
            LET a == appendLog[k]
                i == IndexIn(a.snap, a.sink)
            IN /\ \A j \in 1 .. Len(a.snap) :
                     Received(a.snap[j], a.ev) = IF j < i THEN 1 ELSE 0
               /\ \A j \in 1 .. Len(appendLog) : appendLog[j].ev = a.ev => j <= k
               /\ k < Len(appendLog) =>
                     /\ appendLog[k + 1].ev # a.ev
                     /\ appendLog[k + 1].sink = appendLog[k + 1].snap[1]

\* the first of two sinks threw for the first event, which the second sink never
\* got; the second event has been appended to both sinks
C36_Witness ==
    /\ Quiet /\ Len(appendLog) = 3
    /\ appendLog[1].threw /\ appendLog[1].snap = <<"s1", "s2">> /\ appendLog[1].sink = "s1"
    /\ Received("s2", appendLog[1].ev) = 0
    /\ ~appendLog[2].threw /\ ~appendLog[3].threw
    /\ appendLog[2].ev = appendLog[3].ev
    /\ sinkLog = [s1 |-> <<appendLog[2].ev>>, s2 |-> <<appendLog[2].ev>>]

\* one producer submits to root and every thread that can take a step is scheduled
FifoFairSpec == FifoSpec /\ Scheduling

\* C38: every event whose push into root's ring returned true is popped by the
\* worker and appended to the sink, also when it is the last event submitted
C38_PushedIsEventuallyDrained ==
    \A id \in 1 .. MaxEvents + 1 :
        (EvOf(id, 0) \in accepted["root"]) ~> (Received("s1", EvOf(id, 0)) = 1)

\* the push of the last event has landed after the worker found the ring empty in
\* the predicate of cv_.wait and before the worker blocks: the producer, about to
\* notify, waits for cv_mtx_, which the worker still holds
C38_Witness ==
    /\ th[WorkerOf["root"]].pc = "wk_block" /\ cv_mtx_["root"] = WorkerOf["root"]
    /\ th["p1"].pc = "sub_notify" /\ th["p1"].n = conf.K
    /\ getSize(rb["root"]) = 1
    /\ th["p1"].ev \in accepted["root"] /\ Received("s1", th["p1"].ev) = 0

\* a producer, the worker and two application threads on one logger
LockSpecInit ==
    LockInit /\ LogUnused /\ RingInit({}, {}) /\ RegInit /\ FileUnused /\ ParseUnused /\ WsUnused
LockSpec == LockSpecInit /\ [][LockNext]_vars

\* the threads that must release a lock before thread t can take the lock it is
\* about to take: the owner of a mutex; for an exclusive lock of rw_mtx_ its owner
\* and its readers; for a shared lock its owner and, since std::shared_mutex may
\* prefer writers, the threads that wait for an exclusive lock
WaitsFor(t) ==
    LET pc == lk.pc[t]
        owner(m) == {m} \ {Free, t}
    IN IF pc \in {"sub_cv", "wk_lockcv", "wk_reacq"} THEN owner(lk.cv_mtx_)
       ELSE IF pc \in {"fl_lk", "wr_lk"} THEN owner(lk.writer) \cup (lk.readers \ {t})
       ELSE IF pc \in {"sub_lk", "sub_parent_lk", "wk_rd_lk"}
       THEN owner(lk.writer)
            \cup (IF lk.writer = Free /\ lk.readers = {} THEN {}
                  ELSE {u \in LockThreads \ {t} : lk.pc[u] \in {"fl_lk", "wr_lk"}})
       ELSE IF pc = "wk_app_lk" THEN owner(lk.app_mtx_[lk.copy[lk.i]])
       ELSE IF pc = "fl_sinks" /\ lk.it[t] <= Len(lk.appenders_)
       THEN owner(lk.app_mtx_[lk.appenders_[lk.it[t]]])
       ELSE IF pc = "fmt_lk" THEN owner(lk.app_mtx_[lk.arg[t]])
       ELSE {}

\* the threads that can run to the release of what they hold: those that wait for
\* nobody, and those that wait only for threads that can
RECURSIVE CanRelease(_)
CanRelease(n) ==
    IF n = 0 THEN {t \in LockThreads : WaitsFor(t) = {}}
    ELSE LET R == CanRelease(n - 1)
         IN R \cup {t \in LockThreads : WaitsFor(t) \subseteq R}

\* C37: in every reachable state every thread that waits for cv_mtx_, for rw_mtx_
\* or for a sink's mutex waits for threads that can run until they release it:
\* no set of threads waits for locks in a circle
C37_NoLockDeadlock ==
    CanRelease(Cardinality(LockThreads)) = LockThreads

\* the producer waits for cv_mtx_, which the worker holds while it waits for the
\* mutex of a sink that a flush() holds under the exclusive lock, and the other
\* application thread waits for the exclusive lock in setAppender
C37_Witness ==
    /\ lk.pc["p1"] = "sub_cv" /\ lk.cv_mtx_ = "w_root"
    /\ lk.pc["w_root"] = "wk_app_lk" /\ lk.app_mtx_[lk.copy[lk.i]] = "a1"
    /\ lk.pc["a1"] = "fl_in_sink" /\ lk.writer = "a1"
    /\ lk.pc["a2"] = "wr_lk"

\* parsePattern, one iteration of its loop at a time, on every pattern
ScanSpecInit ==
    /\ \E pattern \in Patterns : pp = ScanStart(pattern)
    /\ LogUnused /\ RingInit({}, {}) /\ RegInit /\ FileUnused /\ WsUnused /\ LockUnused
ScanSpec == ScanSpecInit /\ [][ScanNext]_vars

\* C39: an iteration of the loop of parsePattern leaves rpos or adds one to it; it
\* leaves rpos only when it goes from PATTERN_CHAR to NORMAL_TEXT, and then the
\* iteration before it had moved rpos and the one after it does; at most
\* 2 * (size + 1) iterations are made; and the loop is left with rpos = size + 1
\* in NORMAL_TEXT, the end of the input seen once in NORMAL_TEXT
C39_ParseLoopTerminates ==
    [][pp.pc = "loop" =>
          LET size == Len(pp.pattern)
              ps == pp.ps
              next == pp'.ps
          IN IF pp'.pc = "loop"
             THEN /\ ps.rpos <= size
                  /\ next.rpos \in {ps.rpos, ps.rpos + 1}
                  /\ next.rpos = ps.rpos =>
                        /\ ps.state = "PATTERN_CHAR" /\ next.state = "NORMAL_TEXT"
                        /\ pp.advanced
                        /\ ParseChar(next).rpos = next.rpos + 1
                  /\ pp'.iterations <= 2 * (size + 1)
             ELSE /\ ps.rpos = size + 1 /\ ps.state = "NORMAL_TEXT"
                  /\ pp.eol = 1
      ]_vars

\* the loop has ended on the pattern of the documentation: eleven iterations that
\* moved rpos and three, after %t, %p and %m, that did not
C39_Witness ==
    /\ pp.pc = "scanned" /\ pp.pattern = ExamplePattern
    /\ pp.iterations = Len(ExamplePattern) + 4
    /\ pp.eol = 1 /\ pp.advanced
    /\ pp.ps.rpos = Len(ExamplePattern) + 1

\* one producer (p1), one consumer (c1, which also calls getSize as the worker
\* does) and one more thread (p2) that only calls getSize, as flush() does
RingSizeInit == RingInit({"p1"}, {"c1"}) /\ LogUnused /\ RegInit /\ FileUnused /\ ParseUnused /\ WsUnused /\ LockUnused
RingSizeSpec == RingSizeInit /\ [][RingSizeNext]_vars

\* C40: whatever push and pop calls run at the same time, the value getSize()
\* returns is between 0 and the capacity, so that capacity - getSize(), the value
\* of getRestSize(), is not negative
C40_GetSizeWithinCapacity ==
    lastOp.op = "getSize" =>
        /\ lastOp.size >= 0 /\ lastOp.size <= capacity_
        /\ lastOp.rest >= 0

====
